---------------------------- MODULE Spec2Model ----------------------------
(***************************************************************************)
(* Model of the spreadsheet question-answering engine:                     *)
(*   ExcelProcessor (processFile, inferColumnTypes, inferType) and         *)
(*   QueryProcessor (processQuery, its handlers, extractConditions,        *)
(*   applyFilters), and the App and ChatInterface components that hold     *)
(*   the dataset, the message list and the pending promises.               *)
(*                                                                         *)
(* Text is a sequence of one-character strings, so that includes,          *)
(* toLowerCase, split and the regular expressions are computed on          *)
(* characters.  A JavaScript value is a record [t, n, s]: t is the kind    *)
(* ("num", "nan", "str", "bool", "null", "undef"), n the number (or 0/1    *)
(* of a boolean), s the characters of a string.                            *)
(***************************************************************************)
EXTENDS Integers, Sequences, FiniteSets, TLC

VARIABLES
    file,       \* the file handed to processFile (decoded sheet or failure)
    dataset,    \* App.dataset: NoDataset or the DataSet processFile resolved
    error,      \* App.error: "none" or the rejection message kind
    query,      \* ChatInterface: the text submitted last, Nothing before any
    handler,    \* the handler processQuery called for it, "none" while in flight
    lastConditions, \* what that handler's extractConditions returned, if it called it
    outcome,    \* what processQuery settled with, Nothing while in flight
    dateLenient,\* whether this engine's Date.parse accepts bare numerals
    values,     \* SpecInfer: the non-null values of one column
    inferred,   \* SpecInfer: the type inferType returned, "none" before
    uploads,    \* SpecChat: the files whose processFile promise is pending
    appIsLoading,   \* App.isLoading
    queryProcessor, \* ChatInterface.queryProcessor.current's dataset, Nothing unmounted
    opened,     \* the dataset prop the mounted ChatInterface was first rendered with
    messages,   \* ChatInterface.messages, <<>> while unmounted
    inputValue, \* ChatInterface.inputValue
    chatIsLoading,  \* ChatInterface.isLoading
    inflight,   \* the pending processQuery promises of the mounted ChatInterface
    orphans,    \* the pending processQuery promises of unmounted ChatInterfaces
    lastEvent   \* the handler that ran last

chatVars == <<uploads, appIsLoading, queryProcessor, opened, messages, inputValue,
              chatIsLoading, inflight, orphans, lastEvent>>

vars == <<file, dataset, error, query, handler, lastConditions, outcome, dateLenient,
         values, inferred, uploads, appIsLoading, queryProcessor, opened, messages,
         inputValue, chatIsLoading, inflight, orphans, lastEvent>>

-----------------------------------------------------------------------------
(* Characters and strings *)

UpperChars == <<"A","B","C","D","E","F","G","H","I","J","K","L","M",
                "N","O","P","Q","R","S","T","U","V","W","X","Y","Z">>
LowerChars == <<"a","b","c","d","e","f","g","h","i","j","k","l","m",
                "n","o","p","q","r","s","t","u","v","w","x","y","z">>
DigitChars == <<"0","1","2","3","4","5","6","7","8","9">>

Range(f) == {f[i] : i \in DOMAIN f}

UpperSet == Range(UpperChars)
DigitSet == Range(DigitChars)
\* \w of a JavaScript regular expression: [A-Za-z0-9_]
WordChars == Range(UpperChars) \cup Range(LowerChars) \cup DigitSet \cup {"_"}
\* \s of a JavaScript regular expression (the blanks the inputs use)
SpaceChars == {" "}

LowerOfUpper == [c \in UpperSet |->
                    LowerChars[CHOOSE i \in DOMAIN UpperChars : UpperChars[i] = c]]

\* String.prototype.toLowerCase
toLowerCase(s) == [i \in 1..Len(s) |->
                      IF s[i] \in UpperSet THEN LowerOfUpper[s[i]] ELSE s[i]]

\* String.prototype.includes
includes(s, t) ==
    \E i \in 0..(Len(s) - Len(t)) : SubSeq(s, i + 1, i + Len(t)) = t

kw_average == <<"a", "v", "e", "r", "a", "g", "e">>
kw_mean == <<"m", "e", "a", "n">>
kw_count == <<"c", "o", "u", "n", "t">>
kw_how_many == <<"h", "o", "w", " ", "m", "a", "n", "y">>
kw_maximum == <<"m", "a", "x", "i", "m", "u", "m">>
kw_max == <<"m", "a", "x">>
kw_highest == <<"h", "i", "g", "h", "e", "s", "t">>
kw_minimum == <<"m", "i", "n", "i", "m", "u", "m">>
kw_min == <<"m", "i", "n">>
kw_lowest == <<"l", "o", "w", "e", "s", "t">>
kw_chart == <<"c", "h", "a", "r", "t">>
kw_graph == <<"g", "r", "a", "p", "h">>
kw_plot == <<"p", "l", "o", "t">>
kw_show == <<"s", "h", "o", "w">>
kw_compare == <<"c", "o", "m", "p", "a", "r", "e">>
kw_by == <<"b", "y">>
kw_where == <<"w", "h", "e", "r", "e">>
kw_filter == <<"f", "i", "l", "t", "e", "r">>
kw_line == <<"l", "i", "n", "e">>
kw_pie == <<"p", "i", "e">>
kw_area == <<"a", "r", "e", "a">>
kw_is == <<"i", "s">>
kw_equal == <<"e", "q", "u", "a", "l">>
s_Unknown == <<"U", "n", "k", "n", "o", "w", "n">>
s_undefined == <<"u", "n", "d", "e", "f", "i", "n", "e", "d">>
s_null == <<"n", "u", "l", "l">>
s_true == <<"t", "r", "u", "e">>
s_false == <<"f", "a", "l", "s", "e">>
s_yes == <<"y", "e", "s">>
s_no == <<"n", "o">>
s_NaN == <<"N", "a", "N">>

-----------------------------------------------------------------------------
(* JavaScript values and coercions *)

Num(k) == [t |-> "num", n |-> k, s |-> <<>>]
NaN == [t |-> "nan", n |-> 0, s |-> <<>>]
Str(cs) == [t |-> "str", n |-> 0, s |-> cs]
Bool(b) == [t |-> "bool", n |-> IF b THEN 1 ELSE 0, s |-> <<>>]
Null == [t |-> "null", n |-> 0, s |-> <<>>]
Undefined == [t |-> "undef", n |-> 0, s |-> <<>>]

\* val != null (loose): neither null nor undefined
NotNullish(v) == v.t \notin {"null", "undef"}

\* ToBoolean, as used by || : 0, NaN, "", false, null, undefined are falsy
Truthy(v) ==
    CASE v.t = "num" -> v.n # 0
      [] v.t = "str" -> v.s # <<>>
      [] v.t = "bool" -> v.n = 1
      [] OTHER -> FALSE

\* a || b
OrElse(a, b) == IF Truthy(a) THEN a ELSE b

RECURSIVE TrimLeft(_)
TrimLeft(s) == IF s # <<>> /\ Head(s) \in SpaceChars THEN TrimLeft(Tail(s)) ELSE s
RECURSIVE TrimRight(_)
TrimRight(s) == IF s # <<>> /\ s[Len(s)] \in SpaceChars
                THEN TrimRight(SubSeq(s, 1, Len(s) - 1)) ELSE s
\* String.prototype.trim
Trim(s) == TrimRight(TrimLeft(s))

DigitValue(c) == (CHOOSE i \in DOMAIN DigitChars : DigitChars[i] = c) - 1

RECURSIVE DigitsToNat(_)
DigitsToNat(s) == IF s = <<>> THEN 0
                  ELSE 10 * DigitsToNat(SubSeq(s, 1, Len(s) - 1)) + DigitValue(s[Len(s)])

AllDigits(s) == s # <<>> /\ \A i \in 1..Len(s) : s[i] \in DigitSet

\* StringToNumber on the strings the inputs hold: blanks are trimmed, the
\* empty string is 0, an optionally signed run of decimal digits is its
\* value, anything else is NaN.  (Fractions, exponents, hex and "Infinity"
\* do not occur in the inputs.)
StringToNumber(s) ==
    LET u == Trim(s) IN
    IF u = <<>> THEN Num(0)
    ELSE IF AllDigits(u) THEN Num(DigitsToNat(u))
    ELSE IF Head(u) = "-" /\ AllDigits(Tail(u)) THEN Num(0 - DigitsToNat(Tail(u)))
    ELSE NaN

\* Number(v)
Number(v) ==
    CASE v.t = "num" -> v
      [] v.t = "nan" -> v
      [] v.t = "str" -> StringToNumber(v.s)
      [] v.t = "bool" -> Num(v.n)
      [] v.t = "null" -> Num(0)
      [] OTHER -> NaN

isNaN(v) == v.t = "nan"

RECURSIVE NatToDigits(_)
NatToDigits(k) == IF k < 10 THEN <<DigitChars[k + 1]>>
                  ELSE NatToDigits(k \div 10) \o <<DigitChars[(k % 10) + 1]>>

\* String(v) for the integers, strings, booleans, null and undefined
StringOf(v) ==
    CASE v.t = "num" -> IF v.n < 0 THEN <<"-">> \o NatToDigits(0 - v.n)
                        ELSE NatToDigits(v.n)
      [] v.t = "nan" -> s_NaN
      [] v.t = "str" -> v.s
      [] v.t = "bool" -> IF v.n = 1 THEN s_true ELSE s_false
      [] v.t = "null" -> s_null
      [] OTHER -> s_undefined

\* row[index] of a decoded row: a hole or an index past the end is undefined
At(row, index) == IF index \in 1..Len(row) THEN row[index] ELSE Undefined


-----------------------------------------------------------------------------
(* ExcelProcessor *)

Nothing == <<>>
Just(x) == <<x>>

BooleanWords == {s_true, s_false, s_yes, s_no, <<"1">>, <<"0">>}

\* YYYY-MM-DD, the date-only form every engine's Date.parse accepts
IsIsoDate(s) ==
    /\ Len(s) = 10
    /\ s[5] = "-" /\ s[8] = "-"
    /\ \A i \in {1, 2, 3, 4, 6, 7, 9, 10} : s[i] \in DigitSet
    /\ DigitsToNat(SubSeq(s, 6, 7)) \in 1..12
    /\ DigitsToNat(SubSeq(s, 9, 10)) \in 1..31

\* !isNaN(Date.parse(val)).  Date.parse stringifies its argument.  The ISO
\* form parses everywhere; text that is only a numeral ("1", "30", 5) is
\* implementation-defined and parses or not as the engine (lenient) decides;
\* the other strings of the inputs (words, "", "true") parse nowhere.
DateParses(val, lenient) ==
    LET str == StringOf(val) IN
    \/ IsIsoDate(str)
    \/ (lenient /\ str # <<>>
                /\ (AllDigits(str) \/ (Head(str) = "-" /\ AllDigits(Tail(str)))))

IsNumericValue(val) == ~isNaN(Number(val)) /\ val # Str(<<>>)

IsBooleanValue(val) ==
    \/ val.t = "bool"
    \/ (val.t = "str" /\ toLowerCase(val.s) \in BooleanWords)

\* the threshold met at exactly 80% too: numericValues.length >= values.length * 0.8,
\* which NumberAboveThreshold tells apart from OverThreshold
AtThreshold(k, n) == 5 * k >= 4 * n

\* numericValues.length > values.length * 0.8, in integers: for counts k, n
\* the double n * 0.8 is never below 4n/5 and is above k whenever 5k > 4n
\* fails, so the comparison is exactly 5k > 4n
OverThreshold(k, n) == 5 * k > 4 * n

inferType(vals, lenient) ==
    LET IsDateValue(val) == DateParses(val, lenient)
        numericValues == SelectSeq(vals, IsNumericValue)
        booleanValues == SelectSeq(vals, IsBooleanValue)
        dateValues == SelectSeq(vals, IsDateValue)
    IN  IF Len(vals) = 0 THEN "string"
        ELSE IF OverThreshold(Len(numericValues), Len(vals)) THEN "number"
        ELSE IF OverThreshold(Len(booleanValues), Len(vals)) THEN "boolean"
        ELSE IF OverThreshold(Len(dateValues), Len(vals)) THEN "date"
        ELSE "string"

inferColumnTypes(headers, rows, lenient) ==
    [colIndex \in 1..Len(headers) |->
        LET cells == [r \in 1..Len(rows) |-> At(rows[r], colIndex)]
            colValues == SelectSeq(cells, NotNullish)
        IN  [name |-> headers[colIndex],
             type |-> inferType(colValues, lenient),
             values |-> colValues]]

\* the row object built from one decoded row: rowObj[header] = row[index] || null
\* for each header in turn, a property key being the header's string, so a
\* later header of the same key overwrites an earlier one
RowObject(headers, row) ==
    LET keys == {StringOf(headers[i]) : i \in 1..Len(headers)}
        last(k) == CHOOSE i \in 1..Len(headers) :
                      /\ StringOf(headers[i]) = k
                      /\ \A j \in 1..Len(headers) : StringOf(headers[j]) = k => j <= i
    IN  [k \in keys |-> OrElse(At(row, last(k)), Null)]

\* processFile: what the promise settles with
processFile(f, lenient) ==
    IF f.status = "unreadable"
    THEN [status |-> "rejected", message |-> "Failed to read file", value |-> Nothing]
    ELSE IF f.status = "corrupt" \/ Len(f.json) = 0
    THEN [status |-> "rejected", message |-> "Failed to process Excel file",
          value |-> Nothing]
    ELSE LET headers == f.json[1]
             dataRows == Tail(f.json)
             columns == inferColumnTypes(headers, dataRows, lenient)
             rows == [r \in 1..Len(dataRows) |-> RowObject(headers, dataRows[r])]
         IN  [status |-> "resolved", message |-> "",
              value |-> Just([columns |-> columns, rows |-> rows, fileName |-> f.name])]


-----------------------------------------------------------------------------
(* QueryProcessor: the regular expressions of extractConditions *)

\* the index after the longest run of characters of cs that starts at i
RECURSIVE RunEnd(_, _, _)
RunEnd(s, i, cs) == IF i <= Len(s) /\ s[i] \in cs THEN RunEnd(s, i + 1, cs) ELSE i

\* s holds the literal t at index i
HasAt(s, i, t) == i + Len(t) - 1 <= Len(s) /\ SubSeq(s, i, i + Len(t) - 1) = t

NoMatch == [found |-> FALSE, end |-> 0, groups |-> <<>>]

\* the alternation (>|<|=|>=|<=), in the order the expression tries it
OperatorAlternatives == << <<">">>, <<"<">>, <<"=">>, <<">", "=">>, <<"<", "=">> >>

\* an operator alternative fits at index b when it stands there and a
\* value follows it: \s*(\w+), i.e. after the blanks comes a word character
Fits(s, b, alt) ==
    /\ HasAt(s, b, alt)
    /\ RunEnd(s, b + Len(alt), SpaceChars) <= Len(s)
    /\ s[RunEnd(s, b + Len(alt), SpaceChars)] \in WordChars

\* the alternative a matcher that never backtracks would settle on: the first
\* that stands at index b, whether or not a value follows it
FirstStandingAlternative(s, b) ==
    IF \A k \in 1..Len(OperatorAlternatives) : ~HasAt(s, b, OperatorAlternatives[k]) THEN 0
    ELSE CHOOSE k \in 1..Len(OperatorAlternatives) :
            /\ HasAt(s, b, OperatorAlternatives[k])
            /\ \A j \in 1..(k - 1) : ~HasAt(s, b, OperatorAlternatives[j])

\* the alternative the expression settles on at index b: the first, in order,
\* after which the rest of the expression matches (an alternative that
\* matches but leaves no value behind it is backtracked over); 0 if none
ChosenAlternative(s, b) ==
    IF \A k \in 1..Len(OperatorAlternatives) : ~Fits(s, b, OperatorAlternatives[k]) THEN 0
    ELSE CHOOSE k \in 1..Len(OperatorAlternatives) :
            /\ Fits(s, b, OperatorAlternatives[k])
            /\ \A j \in 1..(k - 1) : ~Fits(s, b, OperatorAlternatives[j])

\* the match once its parts are placed: the first group is s[i..a-1], the
\* groups in mid are what stood between, the last group is s[d..e-1]
Matched(s, i, a, mid, d, e) ==
    [found |-> TRUE, end |-> e,
     groups |-> <<SubSeq(s, i, a - 1)>> \o mid \o <<SubSeq(s, d, e - 1)>>]

MatchedFrom(s, i, a, mid, d) == Matched(s, i, a, mid, d, RunEnd(s, d, WordChars))

\* /(\w+)\s*(>|<|=|>=|<=)\s*(\w+)/ anchored at index i.  The first group and
\* the blanks are greedy, and only their longest runs can be followed by an
\* operator, so backtracking into them never succeeds.
ComparisonWith(s, i, a, b, k) ==
    IF k = 0 THEN NoMatch
    ELSE MatchedFrom(s, i, a, <<OperatorAlternatives[k]>>,
                     RunEnd(s, b + Len(OperatorAlternatives[k]), SpaceChars))

ComparisonAfter(s, i, a) ==
    IF a = i THEN NoMatch
    ELSE ComparisonWith(s, i, a, RunEnd(s, a, SpaceChars),
                        ChosenAlternative(s, RunEnd(s, a, SpaceChars)))

MatchComparison(s, i) == ComparisonAfter(s, i, RunEnd(s, i, WordChars))

\* /(\w+)\s+<word>\s+(\w+)/ anchored at index i, <word> being "is", or
\* "equals?" ("equals" where it stands, else "equal")
WordFormAt(s, i, a, b, w) ==
    IF /\ HasAt(s, b, w)
       /\ RunEnd(s, b + Len(w), SpaceChars) > b + Len(w)
       /\ RunEnd(s, b + Len(w), SpaceChars) <= Len(s)
       /\ s[RunEnd(s, b + Len(w), SpaceChars)] \in WordChars
    THEN MatchedFrom(s, i, a, <<>>, RunEnd(s, b + Len(w), SpaceChars))
    ELSE NoMatch

WordFormAfter(s, i, a, b, words) ==
    IF a = i \/ b = a THEN NoMatch
    ELSE IF Len(words) = 2 /\ WordFormAt(s, i, a, b, words[1]).found
    THEN WordFormAt(s, i, a, b, words[1])
    ELSE WordFormAt(s, i, a, b, words[Len(words)])

MatchWordForm(s, i, words) ==
    WordFormAfter(s, i, RunEnd(s, i, WordChars),
                  RunEnd(s, RunEnd(s, i, WordChars), SpaceChars), words)

\* the three patterns of extractConditions, in the order of its array
PatternCount == 3

MatchAt(p, s, i) ==
    CASE p = 1 -> MatchComparison(s, i)
      [] p = 2 -> MatchWordForm(s, i, <<kw_is>>)
      [] OTHER -> MatchWordForm(s, i, <<kw_equal \o <<"s">>, kw_equal>>)

\* the least index from..Len(s) at which pattern p matches, 0 if none
RECURSIVE FirstStart(_, _, _)
FirstStart(p, s, from) ==
    IF from > Len(s) THEN 0
    ELSE IF MatchAt(p, s, from).found THEN from
    ELSE FirstStart(p, s, from + 1)

\* while ((match = pattern.exec(text)) !== null): the matches of a global
\* expression, each searched leftmost from the previous match's end
RECURSIVE ExecFrom(_, _, _)
ExecFrom(p, s, i) ==
    IF i = 0 THEN <<>>
    ELSE <<MatchAt(p, s, i).groups>> \o ExecFrom(p, s, FirstStart(p, s, MatchAt(p, s, i).end))

ExecAll(p, s, from) == ExecFrom(p, s, FirstStart(p, s, from))

-----------------------------------------------------------------------------
(* QueryProcessor: conditions and filters *)

\* the least index of seq whose element satisfies P, 0 if there is none
FirstIndex(seq, P(_)) ==
    LET hits == {i \in 1..Len(seq) : P(seq[i])} IN
    IF hits = {} THEN 0 ELSE CHOOSE i \in hits : \A j \in hits : i <= j

\* columns.find(col => P(col.name.toLowerCase())): the columns are visited in
\* order until one satisfies P; a name that is not a string has no
\* toLowerCase, so visiting it throws a TypeError
FindByLowerName(columns, P(_)) ==
    LET IsBad(col) == col.name.t # "str"
        IsHit(col) == col.name.t = "str" /\ P(toLowerCase(col.name.s))
        bad == FirstIndex(columns, IsBad)
        hit == FirstIndex(columns, IsHit)
    IN  IF bad > 0 /\ (hit = 0 \/ bad < hit)
        THEN [threw |-> TRUE, index |-> 0]
        ELSE [threw |-> FALSE, index |-> hit]

\* the column a match's first group resolves to
MatchingColumn(ds, column) ==
    FindByLowerName(ds.columns,
                    LAMBDA name : includes(name, column) \/ includes(column, name))

\* const [, column, operator, value] = match: a group the pattern does not
\* have is undefined
Group(groups, k) == IF k <= Len(groups) THEN Str(groups[k]) ELSE Undefined

\* the condition pushed for one match that resolved to the column col
ConditionOf(col, groups) ==
    [column |-> col.name,
     operator |-> OrElse(Group(groups, 2), Str(<<"=">>)).s,
     value |-> IF col.type = "number" THEN Number(Group(groups, 3))
               ELSE Group(groups, 3)]

\* the loop body without its `if (matchingColumn)`: a match that resolves to
\* no column pushes a condition on no column
RECURSIVE CollectUnguarded(_, _)
CollectUnguarded(ds, matches) ==
    IF matches = <<>> THEN <<>>
    ELSE <<ConditionOf(IF MatchingColumn(ds, Head(matches)[1]).index > 0
                       THEN ds.columns[MatchingColumn(ds, Head(matches)[1]).index]
                       ELSE [name |-> Undefined, type |-> "string", values |-> <<>>],
                       Head(matches))>>
         \o CollectUnguarded(ds, Tail(matches))

RECURSIVE CollectConditions(_, _)
CollectConditions(ds, matches) ==
    IF matches = <<>> THEN <<>>
    ELSE LET found == MatchingColumn(ds, Head(matches)[1]) IN
         (IF found.index > 0
          THEN <<ConditionOf(ds.columns[found.index], Head(matches))>>
          ELSE <<>>) \o CollectConditions(ds, Tail(matches))

RECURSIVE AllMatches(_, _)
AllMatches(text, p) ==
    IF p > PatternCount THEN <<>>
    ELSE ExecAll(p, text, 1) \o AllMatches(text, p + 1)

\* extractConditions: the conditions, or threw when a column lookup throws
extractConditions(ds, q) ==
    LET matches == AllMatches(toLowerCase(q), 1)
        threw == \E k \in 1..Len(matches) : MatchingColumn(ds, matches[k][1]).threw
    IN  IF threw THEN [threw |-> TRUE, conditions |-> <<>>]
        ELSE [threw |-> FALSE, conditions |-> CollectConditions(ds, matches)]

\* row[name]
Get(row, name) == IF StringOf(name) \in DOMAIN row THEN row[StringOf(name)] ELSE Undefined

\* a > b on numbers: false when either is NaN
NumLess(a, b) == a.t = "num" /\ b.t = "num" /\ a.n < b.n
NumLessEq(a, b) == a.t = "num" /\ b.t = "num" /\ a.n <= b.n

\* the switch with strict equality of the strings in its default branch, in
\* place of includes
ConditionHoldsByEquality(row, condition) ==
    CASE condition.operator = <<">">> ->
            NumLess(Number(condition.value), Number(Get(row, condition.column)))
      [] condition.operator = <<"<">> ->
            NumLess(Number(Get(row, condition.column)), Number(condition.value))
      [] condition.operator = <<">", "=">> ->
            NumLessEq(Number(condition.value), Number(Get(row, condition.column)))
      [] condition.operator = <<"<", "=">> ->
            NumLessEq(Number(Get(row, condition.column)), Number(condition.value))
      [] OTHER -> toLowerCase(StringOf(Get(row, condition.column)))
                      = toLowerCase(StringOf(condition.value))

\* the switch of applyFilters for one row and one condition
ConditionHolds(row, condition) ==
    LET cellValue == Get(row, condition.column)
        filterValue == condition.value
    IN  CASE condition.operator = <<">">> -> NumLess(Number(filterValue), Number(cellValue))
          [] condition.operator = <<"<">> -> NumLess(Number(cellValue), Number(filterValue))
          [] condition.operator = <<">", "=">> ->
                NumLessEq(Number(filterValue), Number(cellValue))
          [] condition.operator = <<"<", "=">> ->
                NumLessEq(Number(cellValue), Number(filterValue))
          [] OTHER -> includes(toLowerCase(StringOf(cellValue)),
                               toLowerCase(StringOf(filterValue)))

\* conditions.some(...) in place of conditions.every(...)
RowPassesAny(row, conditions) ==
    \E k \in 1..Len(conditions) : ConditionHolds(row, conditions[k])

\* conditions.every(...)
RowPasses(row, conditions) ==
    \A k \in 1..Len(conditions) : ConditionHolds(row, conditions[k])

applyFilters(ds, conditions) ==
    LET Keep(row) == RowPasses(row, conditions) IN SelectSeq(ds.rows, Keep)


-----------------------------------------------------------------------------
(* QueryProcessor: results *)

\* a template string: which template, the names and the numbers it interpolates
Content(tpl, cols, nums) == [tpl |-> tpl, cols |-> cols, nums |-> nums]

TextResult(content) ==
    [status |-> "resolved", type |-> "text", content |-> content,
     chart |-> Nothing, table |-> Nothing]
ChartResult(content, chart) ==
    [status |-> "resolved", type |-> "chart", content |-> content,
     chart |-> Just(chart), table |-> Nothing]
TableResult(content, table) ==
    [status |-> "resolved", type |-> "table", content |-> content,
     chart |-> Nothing, table |-> Just(table)]
\* the promise of processQuery rejected with the TypeError a handler threw
Rejected ==
    [status |-> "rejected", type |-> "error", content |-> Content("TypeError", <<>>, <<>>),
     chart |-> Nothing, table |-> Nothing]

\* numbers that are not integers: a fraction in lowest terms, 0/0 for NaN
RECURSIVE Gcd(_, _)
Gcd(a, b) == IF b = 0 THEN a ELSE Gcd(b, a % b)
Abs(k) == IF k < 0 THEN 0 - k ELSE k
Rat(a, b) == IF b = 0 THEN [num |-> 0, den |-> 0]
             ELSE LET g == Gcd(Abs(a), b) IN [num |-> a \div g, den |-> b \div g]

PosInfinity == [t |-> "inf", n |-> 1, s |-> <<>>]
NegInfinity == [t |-> "inf", n |-> 0 - 1, s |-> <<>>]

\* values.map(v => Number(v)).filter(v => !isNaN(v)), as integers
Coercible(vals) ==
    LET nums == [i \in 1..Len(vals) |-> Number(vals[i])]
        IsNum(v) == ~isNaN(v)
        kept == SelectSeq(nums, IsNum)
    IN  [i \in 1..Len(kept) |-> kept[i].n]

RECURSIVE Sum(_)
Sum(ks) == IF ks = <<>> THEN 0 ELSE Head(ks) + Sum(Tail(ks))

\* (sum / count).toFixed(2): the hundredths, ties rounded away from zero;
\* NaN when count is 0
Fixed2(sum, count) ==
    IF count = 0 THEN NaN
    ELSE IF sum >= 0 THEN [t |-> "fixed2", n |-> (200 * sum + count) \div (2 * count), s |-> <<>>]
    ELSE [t |-> "fixed2", n |-> 0 - ((200 * (0 - sum) + count) \div (2 * count)), s |-> <<>>]

Average2(ks) == Fixed2(Sum(ks), Len(ks))

\* Math.max(...values), Math.min(...values)
MathMax(ks) == IF ks = <<>> THEN NegInfinity
               ELSE Num(CHOOSE k \in Range(ks) : \A j \in Range(ks) : j <= k)
MathMin(ks) == IF ks = <<>> THEN PosInfinity
               ELSE Num(CHOOSE k \in Range(ks) : \A j \in Range(ks) : k <= j)

IsNumberColumn(col) == col.type = "number"

\* this.dataset.columns.filter(col => col.type === 'number')
NumericColumns(ds) == SelectSeq(ds.columns, IsNumberColumn)

\* numericColumns.find(col => query.toLowerCase().includes(col.name.toLowerCase()))
MentionedIn(numericColumns, q) ==
    FindByLowerName(numericColumns, LAMBDA name : includes(toLowerCase(q), name))

AverageResult(numericColumns, mentioned) ==
    IF Len(numericColumns) = 0
    THEN TextResult(Content("No numeric columns found for calculating averages.", <<>>, <<>>))
    ELSE IF mentioned.threw THEN Rejected
    ELSE IF mentioned.index > 0
    THEN TextResult(Content("The average ${name} is ${average.toFixed(2)}.",
                            <<numericColumns[mentioned.index].name>>,
                            <<Average2(Coercible(numericColumns[mentioned.index].values))>>))
    ELSE TextResult(Content("Average values:",
                            [i \in 1..Len(numericColumns) |-> numericColumns[i].name],
                            [i \in 1..Len(numericColumns) |->
                                Average2(Coercible(numericColumns[i].values))]))

handleAverageQuery(ds, q) ==
    AverageResult(NumericColumns(ds), MentionedIn(NumericColumns(ds), q))

CountResult(ds, extracted) ==
    IF extracted.threw THEN Rejected
    ELSE IF Len(extracted.conditions) > 0
    THEN TextResult(Content("Found ${m} rows matching your criteria out of ${n} total rows.",
                            <<>>,
                            <<Num(Len(applyFilters(ds, extracted.conditions))),
                              Num(Len(ds.rows))>>))
    ELSE TextResult(Content("Total number of records: ${n}", <<>>, <<Num(Len(ds.rows))>>))

handleCountQuery(ds, q) == CountResult(ds, extractConditions(ds, q))

MaxResult(numericColumns, mentioned) ==
    IF mentioned.threw THEN Rejected
    ELSE IF mentioned.index > 0
    THEN TextResult(Content("The maximum ${name} is ${max}.",
                            <<numericColumns[mentioned.index].name>>,
                            <<MathMax(Coercible(numericColumns[mentioned.index].values))>>))
    ELSE TextResult(Content("Please specify which column you want to find the maximum for.",
                            <<>>, <<>>))

handleMaxQuery(ds, q) == MaxResult(NumericColumns(ds), MentionedIn(NumericColumns(ds), q))

MinResult(numericColumns, mentioned) ==
    IF mentioned.threw THEN Rejected
    ELSE IF mentioned.index > 0
    THEN TextResult(Content("The minimum ${name} is ${min}.",
                            <<numericColumns[mentioned.index].name>>,
                            <<MathMin(Coercible(numericColumns[mentioned.index].values))>>))
    ELSE TextResult(Content("Please specify which column you want to find the minimum for.",
                            <<>>, <<>>))

handleMinQuery(ds, q) == MinResult(NumericColumns(ds), MentionedIn(NumericColumns(ds), q))

-----------------------------------------------------------------------------
(* QueryProcessor: charts, comparison, filter, summary *)

\* the distinct elements of a sequence, in the order of their first occurrence
RECURSIVE Distinct(_)
Distinct(seq) ==
    IF seq = <<>> THEN <<>>
    ELSE LET front == Distinct(SubSeq(seq, 1, Len(seq) - 1))
             last == seq[Len(seq)]
         IN  IF last \in Range(front) THEN front ELSE Append(front, last)

\* a property key that is an array index: a canonical numeral
IsArrayIndex(k) == AllDigits(k) /\ (Len(k) = 1 \/ k[1] # "0")

RECURSIVE SortByNumber(_)
SortByNumber(keys) ==
    IF keys = {} THEN <<>>
    ELSE LET least == CHOOSE k \in keys :
                         \A j \in keys : DigitsToNat(k) <= DigitsToNat(j)
         IN  <<least>> \o SortByNumber(keys \ {least})

\* the key order of Object.entries for keys inserted in the order of seq:
\* array-index keys ascending, then the other keys in insertion order
EntryKeys(seq) ==
    LET NotIndex(k) == ~IsArrayIndex(k)
        keys == Distinct(seq)
    IN  SortByNumber({k \in Range(keys) : IsArrayIndex(k)}) \o SelectSeq(keys, NotIndex)

Occurrences(seq, k) == Cardinality({i \in 1..Len(seq) : seq[i] = k})

\* columns.find(col => col.name === columnName)
ColumnNamed(ds, columnName) ==
    LET Same(col) == col.name = columnName IN FirstIndex(ds.columns, Same)

ChartOf(chartType, data, yKey, title) ==
    [type |-> chartType, data |-> data, xKey |-> "name", yKey |-> yKey, title |-> title]

\* Object.entries(counts).map(([name, count]) => ({name, count, value: count}))
CountEntries(labels, keys) ==
    [i \in 1..Len(keys) |->
        [name |-> keys[i],
         count |-> Occurrences(labels, keys[i]),
         value |-> Rat(Occurrences(labels, keys[i]), 1),
         average |-> Nothing]]

DistributionResult(columnName, chartType, labels) ==
    ChartResult(Content("Distribution of ${columnName}:", <<columnName>>, <<>>),
                ChartOf(chartType, CountEntries(labels, EntryKeys(labels)), "count",
                        Content("${columnName} Distribution", <<columnName>>, <<>>)))

\* the key each value is counted under: String(value || 'Unknown')
DistributionLabels(vals) ==
    [i \in 1..Len(vals) |-> StringOf(OrElse(vals[i], Str(s_Unknown)))]

createDistributionChart(ds, columnName, chartType) ==
    IF ColumnNamed(ds, columnName) = 0
    THEN TextResult(Content("Column ${columnName} not found.", <<columnName>>, <<>>))
    ELSE DistributionResult(columnName, chartType,
                            DistributionLabels(ds.columns[ColumnNamed(ds, columnName)].values))

binCount == 10

\* x.toFixed(1) of the number tenths / 10
Fixed1(tenths) ==
    (IF tenths < 0 THEN <<"-">> ELSE <<>>)
        \o NatToDigits(Abs(tenths) \div 10) \o <<".">> \o NatToDigits(Abs(tenths) % 10)

Least(a, b) == IF a <= b THEN a ELSE b

\* the label of the bin a value falls in.  binSize = (max - min) / binCount;
\* binIndex = min(floor((value - min) / binSize), binCount - 1), computed
\* here in exact arithmetic; binStart and binEnd are whole tenths when
\* binCount is 10.  With max = min, binSize is 0 and every index is NaN.
BinLabel(value, min, max) ==
    IF max = min THEN s_NaN \o <<"-">> \o s_NaN
    ELSE LET binIndex == Least((binCount * (value - min)) \div (max - min), binCount - 1)
             binStart == binCount * min + binIndex * (max - min)
             binEnd == binStart + (max - min)
         IN  Fixed1(binStart) \o <<"-">> \o Fixed1(binEnd)

\* the bin label of each coercible value
BinLabels(ks) == [i \in 1..Len(ks) |-> BinLabel(ks[i], MathMin(ks).n, MathMax(ks).n)]

createNumericChart(ds, columnName, chartType) ==
    IF ColumnNamed(ds, columnName) = 0
    THEN TextResult(Content("Column ${columnName} not found.", <<columnName>>, <<>>))
    ELSE DistributionResult(columnName, chartType,
                            BinLabels(Coercible(ds.columns[ColumnNamed(ds, columnName)].values)))

\* the key each row is grouped under: String(row[groupByColumn] || 'Unknown')
GroupLabels(ds, groupByColumn) ==
    [i \in 1..Len(ds.rows) |->
        StringOf(OrElse(Get(ds.rows[i], groupByColumn), Str(s_Unknown)))]

\* the coercible values of the column named name in the rows labelled k
GroupValues(ds, labels, k, name) ==
    Coercible(SelectSeq([i \in 1..Len(ds.rows) |->
                            IF labels[i] = k THEN Get(ds.rows[i], name) ELSE Undefined],
                        LAMBDA v : v # Undefined))

\* values.length > 0 ? sum / values.length : 0
GroupAverage(ks) == IF Len(ks) > 0 THEN Rat(Sum(ks), Len(ks)) ELSE Rat(0, 1)

AverageEntries(ds, labels, keys, name) ==
    [i \in 1..Len(keys) |->
        [name |-> keys[i],
         count |-> Occurrences(labels, keys[i]),
         value |-> GroupAverage(GroupValues(ds, labels, keys[i], name)),
         average |-> Just(GroupAverage(GroupValues(ds, labels, keys[i], name)))]]

GroupedResult(ds, groupByColumn, labels, numericColumn) ==
    IF numericColumn > 0
    THEN ChartResult(
            Content("Analysis by ${groupByColumn}:", <<groupByColumn>>, <<>>),
            ChartOf("bar",
                    AverageEntries(ds, labels, EntryKeys(labels), ds.columns[numericColumn].name),
                    "average",
                    Content("Average ${numericColumn.name} by ${groupByColumn}",
                            <<ds.columns[numericColumn].name, groupByColumn>>, <<>>)))
    ELSE ChartResult(
            Content("Count by ${groupByColumn}:", <<groupByColumn>>, <<>>),
            ChartOf("bar", CountEntries(labels, EntryKeys(labels)), "count",
                    Content("Count by ${groupByColumn}", <<groupByColumn>>, <<>>)))

\* the first number-typed column, the group-by column included
AggregateAnyNumber(ds, groupByColumn) ==
    FirstIndex(ds.columns, LAMBDA col : col.type = "number")

\* this.dataset.columns.find(col => col.type === 'number' && col.name !== groupByColumn)
AggregateColumn(ds, groupByColumn) ==
    FirstIndex(ds.columns, LAMBDA col : col.type = "number" /\ col.name # groupByColumn)

createGroupedAnalysis(ds, groupByColumn) ==
    IF ColumnNamed(ds, groupByColumn) = 0
    THEN TextResult(Content("Column ${groupByColumn} not found.", <<groupByColumn>>, <<>>))
    ELSE GroupedResult(ds, groupByColumn, GroupLabels(ds, groupByColumn),
                       AggregateColumn(ds, groupByColumn))

ChartTypeOf(lowerQuery) ==
    IF includes(lowerQuery, kw_line) THEN "line"
    ELSE IF includes(lowerQuery, kw_pie) THEN "pie"
    ELSE IF includes(lowerQuery, kw_area) THEN "area"
    ELSE "bar"

\* this.dataset.columns.find(col => col.type === 'string')
FirstStringColumn(ds) == FirstIndex(ds.columns, LAMBDA col : col.type = "string")

ChartFor(ds, chartType, xColumn, categoricalCol) ==
    IF xColumn.threw THEN Rejected
    ELSE IF xColumn.index = 0 /\ categoricalCol > 0
    THEN createDistributionChart(ds, ds.columns[categoricalCol].name, chartType)
    ELSE IF xColumn.index > 0 /\ ds.columns[xColumn.index].type = "string"
    THEN createDistributionChart(ds, ds.columns[xColumn.index].name, chartType)
    ELSE IF xColumn.index > 0 /\ ds.columns[xColumn.index].type = "number"
    THEN createNumericChart(ds, ds.columns[xColumn.index].name, chartType)
    ELSE TextResult(Content("Unable to determine what to chart. Please specify a column name.",
                            <<>>, <<>>))

handleChartQuery(ds, q) ==
    ChartFor(ds, ChartTypeOf(toLowerCase(q)),
             FindByLowerName(ds.columns, LAMBDA name : includes(toLowerCase(q), name)),
             FirstStringColumn(ds))

\* String.prototype.split on one separator character
RECURSIVE Split(_, _)
Split(s, sep) ==
    LET Cut(c) == c = sep
        k == FirstIndex(s, Cut)
    IN  IF k = 0 THEN <<s>>
        ELSE <<SubSeq(s, 1, k - 1)>> \o Split(SubSeq(s, k + 1, Len(s)), sep)

\* this.dataset.columns.find(col => after.some(word =>
\* col.name.toLowerCase().includes(word))); with no word after "by", some()
\* calls nothing and no name is read
GroupByColumn(ds, after) ==
    IF after = <<>> THEN [threw |-> FALSE, index |-> 0]
    ELSE FindByLowerName(ds.columns,
                         LAMBDA name : \E k \in 1..Len(after) : includes(name, after[k]))

ComparisonResult(ds, groupByColumn) ==
    IF groupByColumn.threw THEN Rejected
    ELSE IF groupByColumn.index = 0
    THEN TextResult(Content("Could not identify the column to group by.", <<>>, <<>>))
    ELSE createGroupedAnalysis(ds, ds.columns[groupByColumn.index].name)

ComparisonOf(ds, words, byIndex) ==
    IF byIndex = 0
    THEN TextResult(Content("Please specify what you want to compare and by which column.",
                            <<>>, <<>>))
    ELSE ComparisonResult(ds, GroupByColumn(ds, SubSeq(words, byIndex + 1, Len(words))))

\* words.indexOf('by')
IndexOfBy(words) == FirstIndex(words, LAMBDA w : w = kw_by)

handleComparisonQuery(ds, q) ==
    ComparisonOf(ds, Split(toLowerCase(q), " "), IndexOfBy(Split(toLowerCase(q), " ")))

\* filteredRows.slice(0, 10)
SliceLimit == 10

\* this.dataset.columns.map(col => col.name)
Headers(ds) == [i \in 1..Len(ds.columns) |-> ds.columns[i].name]

\* the rows of the table without the slice(0, 10)
TableRowsUnsliced(ds, filteredRows) ==
    [r \in 1..Len(filteredRows) |->
        [h \in 1..Len(ds.columns) |->
            OrElse(Get(filteredRows[r], ds.columns[h].name), Str(<<>>))]]

\* filteredRows.slice(0, 10).map(row => headers.map(header => row[header] || ''))
TableRows(ds, filteredRows) ==
    [r \in 1..Least(SliceLimit, Len(filteredRows)) |->
        [h \in 1..Len(ds.columns) |->
            OrElse(Get(filteredRows[r], ds.columns[h].name), Str(<<>>))]]

FilterTable(ds, filteredRows) ==
    IF Len(filteredRows) = 0
    THEN TextResult(Content("No records match your filter criteria.", <<>>, <<>>))
    ELSE TableResult(Content("Found ${k} matching records:", <<>>, <<Num(Len(filteredRows))>>),
                     [headers |-> Headers(ds), rows |-> TableRows(ds, filteredRows),
                      title |-> "Filtered Results"])

FilterResult(ds, extracted) ==
    IF extracted.threw THEN Rejected
    ELSE FilterTable(ds, applyFilters(ds, extracted.conditions))

handleFilterQuery(ds, q) == FilterResult(ds, extractConditions(ds, q))

\* one line of the summary per column: average, min and max of a number
\* column, the count of distinct raw values of any other
NumberSummary(ks) == <<Average2(ks), MathMin(ks), MathMax(ks)>>

SummaryLine(col) ==
    IF col.type = "number" THEN NumberSummary(Coercible(col.values))
    ELSE <<Num(Cardinality(Range(col.values)))>>

RECURSIVE SummaryLines(_)
SummaryLines(columns) ==
    IF columns = <<>> THEN <<>>
    ELSE SummaryLine(Head(columns)) \o SummaryLines(Tail(columns))

handleSummaryQuery(ds) ==
    TextResult(Content("Data Summary for ${fileName}:",
                       <<Str(ds.fileName)>> \o [i \in 1..Len(ds.columns) |-> ds.columns[i].name],
                       SummaryLines(ds.columns)))


-----------------------------------------------------------------------------
(* QueryProcessor.processQuery *)

\* the chain of ifs with the chart rule moved to the front: a wrong order,
\* which RoutedByFirstRule tells apart from Route
RouteChartFirst(q) ==
    IF \/ includes(toLowerCase(q), kw_chart) \/ includes(toLowerCase(q), kw_graph)
       \/ includes(toLowerCase(q), kw_plot) \/ includes(toLowerCase(q), kw_show)
        THEN "handleChartQuery"
    ELSE IF includes(toLowerCase(q), kw_average) \/ includes(toLowerCase(q), kw_mean)
        THEN "handleAverageQuery"
    ELSE IF includes(toLowerCase(q), kw_count) \/ includes(toLowerCase(q), kw_how_many)
        THEN "handleCountQuery"
    ELSE IF includes(toLowerCase(q), kw_max) \/ includes(toLowerCase(q), kw_highest)
        THEN "handleMaxQuery"
    ELSE IF includes(toLowerCase(q), kw_min) \/ includes(toLowerCase(q), kw_lowest)
        THEN "handleMinQuery"
    ELSE IF includes(toLowerCase(q), kw_compare) \/ includes(toLowerCase(q), kw_by)
        THEN "handleComparisonQuery"
    ELSE IF includes(toLowerCase(q), kw_where) \/ includes(toLowerCase(q), kw_filter)
        THEN "handleFilterQuery"
    ELSE "handleSummaryQuery"

\* the handler the chain of ifs reaches for a question
Route(q) ==
    LET lowerQuery == toLowerCase(q) IN
    IF includes(lowerQuery, kw_average) \/ includes(lowerQuery, kw_mean)
        THEN "handleAverageQuery"
    ELSE IF includes(lowerQuery, kw_count) \/ includes(lowerQuery, kw_how_many)
        THEN "handleCountQuery"
    ELSE IF \/ includes(lowerQuery, kw_maximum) \/ includes(lowerQuery, kw_max)
            \/ includes(lowerQuery, kw_highest)
        THEN "handleMaxQuery"
    ELSE IF \/ includes(lowerQuery, kw_minimum) \/ includes(lowerQuery, kw_min)
            \/ includes(lowerQuery, kw_lowest)
        THEN "handleMinQuery"
    ELSE IF \/ includes(lowerQuery, kw_chart) \/ includes(lowerQuery, kw_graph)
            \/ includes(lowerQuery, kw_plot) \/ includes(lowerQuery, kw_show)
        THEN "handleChartQuery"
    ELSE IF includes(lowerQuery, kw_compare) \/ includes(lowerQuery, kw_by)
        THEN "handleComparisonQuery"
    ELSE IF includes(lowerQuery, kw_where) \/ includes(lowerQuery, kw_filter)
        THEN "handleFilterQuery"
    ELSE "handleSummaryQuery"

Dispatch(ds, q, h) ==
    CASE h = "handleAverageQuery" -> handleAverageQuery(ds, q)
      [] h = "handleCountQuery" -> handleCountQuery(ds, q)
      [] h = "handleMaxQuery" -> handleMaxQuery(ds, q)
      [] h = "handleMinQuery" -> handleMinQuery(ds, q)
      [] h = "handleChartQuery" -> handleChartQuery(ds, q)
      [] h = "handleComparisonQuery" -> handleComparisonQuery(ds, q)
      [] h = "handleFilterQuery" -> handleFilterQuery(ds, q)
      [] OTHER -> handleSummaryQuery(ds)

\* what the promise of processQuery settles with
processQuery(ds, q) == Dispatch(ds, q, Route(q))

\* the handlers that call extractConditions
CallsExtract(h) == h \in {"handleCountQuery", "handleFilterQuery"}

\* this.dataset after a Filter or Count question, had applyFilters removed
\* the failing rows from this.dataset.rows in place
DatasetFilteredInPlace(ds, q) ==
    IF CallsExtract(Route(q)) /\ ~extractConditions(ds, q).threw
    THEN [ds EXCEPT !.rows = applyFilters(ds, extractConditions(ds, q).conditions)]
    ELSE ds

\* this.dataset after processQuery(q): the field is assigned in the
\* constructor only, and the handlers read it through filter, map, slice,
\* find, forEach and some, writing to their own objects (counts, bins,
\* groups, conditions) and to none of its columns or rows
DatasetAfter(ds, q) == ds


-----------------------------------------------------------------------------
(* Inputs *)

w_age == <<"a", "g", "e">>
w_ages == <<"a", "g", "e", "s">>
w_ag == <<"a", "g">>
w_status == <<"s", "t", "a", "t", "u", "s">>
w_Sales == <<"S", "a", "l", "e", "s">>
w_sales == <<"s", "a", "l", "e", "s">>
w_region == <<"r", "e", "g", "i", "o", "n">>
w_name == <<"n", "a", "m", "e">>
w_active == <<"a", "c", "t", "i", "v", "e">>
w_east == <<"e", "a", "s", "t">>
w_west == <<"w", "e", "s", "t">>
w_rows == <<"r", "o", "w", "s">>
w_what == <<"w", "h", "a", "t">>
w_AVERAGE == <<"A", "V", "E", "R", "A", "G", "E">>
w_Show == <<"S", "h", "o", "w">>
w_country == <<"c", "o", "u", "n", "t", "r", "y">>
w_baby == <<"b", "a", "b", "y">>
w_admin == <<"a", "d", "m", "i", "n">>
w_x == <<"x">>
w_act == <<"a", "c", "t">>
w_30 == <<"3", "0">>
w_5 == <<"5">>
w_0 == <<"0">>
w_1 == <<"1">>
w_data == <<"d", "a", "t", "a", ".", "x", "l", "s", "x">>
w_iso == <<"2", "0", "2", "0", "-", "0", "1", "-", "0", "2">>
op_gt == <<">">>
op_lt == <<"<">>
op_eq == <<"=">>
op_ge == <<">", "=">>
op_le == <<"<", "=">>

\* the words of ws joined by single blanks
RECURSIVE Join(_)
Join(ws) == IF Len(ws) = 0 THEN <<>>
            ELSE IF Len(ws) = 1 THEN ws[1]
            ELSE ws[1] \o <<" ">> \o Join(Tail(ws))

\* all sequences of 0..n elements of the sequence pool
SeqsUpTo(pool, n) == UNION {[1..k -> Range(pool)] : k \in 0..n}

\* ---- files ----
OkFile(json) == [status |-> "ok", name |-> w_data, json |-> json]
UnreadableFile == [status |-> "unreadable", name |-> w_data, json |-> <<>>]
CorruptFile == [status |-> "corrupt", name |-> w_data, json |-> <<>>]

HeaderAgeStatus == <<Str(w_age), Str(w_status)>>
\* a header cell that is a number, as a year column has
HeaderYearStatus == <<Num(2021), Str(w_status)>>
HeaderRows == {HeaderAgeStatus, HeaderYearStatus}

\* decoded data rows: full, with falsy cells, short (trailing cell
\* missing) and with a hole
RowPool == << <<Num(30), Str(w_active)>>,
              <<Num(5), Str(w_x)>>,
              <<Num(0), Str(<<>>)>>,
              <<Num(40)>>,
              <<Undefined, Bool(FALSE)>> >>

MaxSmallRows == 2
MaxRows == 12

SmallSheets == {<<h>> \o rows : h \in HeaderRows, rows \in SeqsUpTo(RowPool, MaxSmallRows)}

\* sheets of more rows than a table shows, the pool's rows in rotation
LongSheets == {<<HeaderAgeStatus>> \o [i \in 1..k |-> RowPool[((i - 1) % 3) + 1]] :
                  k \in (SliceLimit + 1)..MaxRows}

Files == {UnreadableFile, CorruptFile, OkFile(<<>>), OkFile(<< <<>> >>)}
            \cup {OkFile(json) : json \in SmallSheets \cup LongSheets}

\* ---- questions of the application specification ----
Questions ==
    {Join(ws) : ws \in {
        <<kw_count>>, <<kw_how_many, w_rows>>,
        <<kw_count, w_age, op_gt, w_5>>, <<kw_count, w_age \o op_ge \o w_30>>,
        <<kw_count, w_status, op_eq, w_active>>, <<kw_count, w_status, kw_is, w_active>>,
        <<kw_count, w_age, op_gt, w_0, w_status, op_eq, w_active>>,
        <<kw_count, w_x, op_gt, w_5>>,
        <<kw_count, w_status, op_eq, w_act>>, <<kw_count, w_status, op_lt, w_5>>,
        <<kw_filter>>, <<kw_filter, w_age, op_gt, w_5>>, <<kw_where, w_age, op_le, w_30>>,
        <<kw_where, w_age, op_ge, w_0>>, <<kw_filter, w_status, op_eq, w_x>>,
        <<kw_filter, w_status, kw_equal, w_active>>,
        <<kw_average>>, <<kw_average, w_age>>, <<kw_max, w_age>>, <<kw_min, w_age>>,
        <<kw_maximum>>, <<kw_show, w_age>>, <<kw_show, w_status>>, <<kw_plot>>,
        <<kw_pie, kw_chart>>, <<kw_compare, kw_by, w_status>>, <<kw_compare, kw_by, w_age>>,
        <<kw_compare>>, <<w_what>>, <<w_age>>}}

\* ---- value lists of the type inference specification ----
ValuePool == <<Num(1), Str(w_1), Str(w_0), Str(<<>>), Str(w_x), Str(s_yes), Str(w_iso)>>
MaxValues == 5
ValueLists == SeqsUpTo(ValuePool, MaxValues)

\* ---- sheets of the query specifications ----
w_Age == <<"A", "g", "e">>
w_stage == <<"s", "t", "a", "g", "e">>

SheetPeople == << <<Str(w_age), Str(w_status), Str(w_Sales)>>,
                  <<Num(30), Str(w_active), Num(100)>>,
                  <<Num(5), Str(w_x), Num(7)>> >>
SheetRegions == << <<Str(w_region), Str(w_name)>>,
                   <<Str(w_east), Str(w_baby)>>,
                   <<Str(w_west), Str(w_admin)>> >>
SheetYears == << HeaderYearStatus, <<Num(30), Str(w_active)>> >>

\* the datasets processFile builds from these sheets
DatasetOf(json, lenient) == processFile(OkFile(json), lenient).value

\* ---- questions of the routing specification ----
RouteWords == <<kw_average, kw_mean, kw_count, kw_how_many, kw_maximum, kw_max,
                kw_highest, kw_minimum, kw_min, kw_lowest, kw_chart, kw_graph,
                kw_plot, kw_show, kw_compare, kw_by, kw_where, kw_filter,
                w_Sales, w_AVERAGE, w_Show, w_what>>
MaxWords == 2

RouteQuestions ==
    {Join(ws) : ws \in SeqsUpTo(RouteWords, MaxWords) \ {<<>>}}
        \cup {Join(<<kw_show, kw_average, w_sales>>)}

\* ---- questions of the condition specification ----
\* "<token> <op> <value>", with or without blanks around the operator
ComparisonForms ==
    [pre : {<<>>, kw_count \o <<" ">>},
     token : {w_age, w_Age, w_ages, w_ag, w_stage, w_status, w_sales, w_name, w_x},
     sp1 : {<<>>, <<" ">>},
     op : {op_gt, op_lt, op_eq, op_ge, op_le},
     sp2 : {<<>>, <<" ">>},
     value : {w_30, w_5, w_active}]

ComparisonText(f) == f.pre \o f.token \o f.sp1 \o f.op \o f.sp2 \o f.value

ComparisonQuestions == {[text |-> ComparisonText(f), form |-> f] : f \in ComparisonForms}

\* "<token> is <value>", "<token> equal <value>", "<token> equals <value>"
WordForms ==
    [pre : {<<>>, kw_count \o <<" ">>},
     token : {w_age, w_Age, w_status, w_sales, w_name, w_x},
     word : {kw_is, kw_equal, kw_equal \o <<"s">>},
     value : {w_30, w_active}]

WordFormText(f) == f.pre \o f.token \o <<" ">> \o f.word \o <<" ">> \o f.value

WordFormQuestions == {[text |-> WordFormText(f), form |-> f] : f \in WordForms}

\* several conditions in one text, some on no column
MixedQuestions ==
    {Join(ws) : ws \in {
        <<w_age, op_gt, w_5, w_x, op_eq, w_1>>,
        <<w_x, op_gt, w_5, w_status, op_eq, w_active>>,
        <<w_age, op_ge, w_5, w_status, kw_is, w_active>>,
        <<w_x, op_lt, w_5, w_country, op_eq, w_1>>,
        <<w_what, w_rows>>, <<op_gt, w_5>>, <<w_age, op_gt>>}}

ConditionQuestions ==
    {cq.text : cq \in ComparisonQuestions} \cup {wq.text : wq \in WordFormQuestions}
        \cup MixedQuestions


-----------------------------------------------------------------------------
(* The application: upload, reset, questions *)

NotCalled == [called |-> FALSE, threw |-> FALSE, conditions |-> <<>>]

\* no upload pending and no ChatInterface mounted
NoChat ==
    /\ uploads = {}
    /\ appIsLoading = FALSE
    /\ queryProcessor = Nothing
    /\ opened = Nothing
    /\ messages = <<>>
    /\ inputValue = <<>>
    /\ chatIsLoading = FALSE
    /\ inflight = <<>>
    /\ orphans = 0
    /\ lastEvent = "none"

IsLoading == query # Nothing /\ outcome = Nothing

Init ==
    /\ file = Nothing
    /\ dataset = Nothing
    /\ error = "none"
    /\ query = Nothing
    /\ handler = "none"
    /\ lastConditions = NotCalled
    /\ outcome = Nothing
    /\ dateLenient \in BOOLEAN
    /\ values = <<>>
    /\ inferred = "none"
    /\ NoChat

\* App.handleFileUpload; the upload form is shown only while there is no dataset
HandleFileUpload(f) ==
    /\ dataset = Nothing
    /\ LET settled == processFile(f, dateLenient) IN
       /\ dataset' = settled.value
       /\ error' = IF settled.status = "rejected" THEN settled.message ELSE "none"
    /\ file' = Just(f)
    /\ UNCHANGED <<query, handler, lastConditions, outcome, dateLenient, values, inferred>>
    /\ UNCHANGED chatVars

\* App.handleReset; the chat and its state are unmounted with the dataset
HandleReset ==
    /\ dataset # Nothing
    /\ dataset' = Nothing
    /\ error' = "none"
    /\ query' = Nothing
    /\ handler' = "none"
    /\ lastConditions' = NotCalled
    /\ outcome' = Nothing
    /\ UNCHANGED <<file, dateLenient, values, inferred>>
    /\ UNCHANGED chatVars

\* ChatInterface.handleSubmit up to its await
HandleSubmit(q) ==
    /\ dataset # Nothing
    /\ Trim(q) # <<>>
    /\ ~IsLoading
    /\ query' = Just(q)
    /\ handler' = "none"
    /\ lastConditions' = NotCalled
    /\ outcome' = Nothing
    /\ UNCHANGED <<file, dataset, error, dateLenient, values, inferred>>
    /\ UNCHANGED chatVars

\* what extractConditions returned to the handler h, if h calls it
Observed(h, extracted) ==
    IF CallsExtract(h)
    THEN [called |-> TRUE, threw |-> extracted.threw, conditions |-> extracted.conditions]
    ELSE NotCalled

\* the promise of processQuery settles
QuerySettles ==
    /\ dataset # Nothing
    /\ IsLoading
    /\ handler' = Route(query[1])
    /\ lastConditions' = Observed(Route(query[1]), extractConditions(dataset[1], query[1]))
    /\ outcome' = Just(processQuery(dataset[1], query[1]))
    /\ dataset' = Just(DatasetAfter(dataset[1], query[1]))
    /\ UNCHANGED <<file, error, query, dateLenient, values, inferred>>
    /\ UNCHANGED chatVars

Next ==
    \/ \E f \in Files : HandleFileUpload(f)
    \/ HandleReset
    \/ \E q \in Questions : HandleSubmit(q)
    \/ QuerySettles

Spec == Init /\ [][Next]_vars

-----------------------------------------------------------------------------
(* Type inference on its own *)

InitInfer ==
    /\ file = Nothing
    /\ dataset = Nothing
    /\ error = "none"
    /\ query = Nothing
    /\ handler = "none"
    /\ lastConditions = NotCalled
    /\ outcome = Nothing
    /\ dateLenient \in BOOLEAN
    /\ values \in ValueLists
    /\ inferred = "none"
    /\ NoChat

InferStep ==
    /\ inferred = "none"
    /\ inferred' = inferType(values, dateLenient)
    /\ UNCHANGED <<file, dataset, error, query, handler, lastConditions, outcome,
                   dateLenient, values>>
    /\ UNCHANGED chatVars

NextInfer == InferStep

SpecInfer == InitInfer /\ [][NextInfer]_vars

-----------------------------------------------------------------------------
(* One question on a loaded dataset *)

InitQuery ==
    /\ file = Nothing
    /\ dateLenient \in BOOLEAN
    /\ dataset \in {DatasetOf(json, dateLenient) : json \in {SheetPeople, SheetRegions}}
    /\ error = "none"
    /\ query \in {Just(q) : q \in RouteQuestions}
    /\ handler = "none"
    /\ lastConditions = NotCalled
    /\ outcome = Nothing
    /\ values = <<>>
    /\ inferred = "none"
    /\ NoChat

NextQuery == QuerySettles

SpecQuery == InitQuery /\ [][NextQuery]_vars

-----------------------------------------------------------------------------
(* extractConditions on its own *)

InitExtract ==
    /\ file = Nothing
    /\ dateLenient \in BOOLEAN
    /\ dataset \in {DatasetOf(json, dateLenient) :
                        json \in {SheetPeople, SheetRegions, SheetYears}}
    /\ error = "none"
    /\ query \in {Just(q) : q \in ConditionQuestions}
    /\ handler = "none"
    /\ lastConditions = NotCalled
    /\ outcome = Nothing
    /\ values = <<>>
    /\ inferred = "none"
    /\ NoChat

\* what a call of extractConditions returned
Returned(extracted) ==
    [called |-> TRUE, threw |-> extracted.threw, conditions |-> extracted.conditions]

ExtractStep ==
    /\ ~lastConditions.called
    /\ lastConditions' = Returned(extractConditions(dataset[1], query[1]))
    /\ UNCHANGED <<file, dataset, error, query, handler, outcome, dateLenient, values,
                   inferred>>
    /\ UNCHANGED chatVars

NextExtract == ExtractStep

SpecExtract == InitExtract /\ [][NextExtract]_vars


-----------------------------------------------------------------------------
(* QueryProcessor on its own: new QueryProcessor(dataset), one processQuery *)

\* five of six ages are numbers, so the column is number-typed; the sixth
\* row is alone in its status group and its age does not coerce
SheetTeam == << HeaderAgeStatus,
                <<Num(30), Str(w_active)>>, <<Num(5), Str(w_active)>>,
                <<Num(40), Str(w_x)>>, <<Num(30), Str(w_x)>>,
                <<Num(5), Str(w_x)>>, <<Str(w_x), Str(w_east)>> >>
SheetTrade == << <<Str(w_region), Str(w_Sales)>>,
                 <<Str(w_east), Num(30)>>, <<Str(w_east), Num(5)>>,
                 <<Str(w_west), Num(40)>> >>
\* a header row and nothing else
SheetHeaderOnly == << HeaderAgeStatus >>
\* one age throughout
SheetSameAge == << HeaderAgeStatus, RowPool[1], RowPool[1] >>
\* status cells missing, empty and false
SheetGaps == << HeaderAgeStatus, RowPool[1], RowPool[4], RowPool[3], RowPool[5] >>
\* the ages spread over the bins of a histogram
SheetSpread == << <<Str(w_age)>>, <<Num(0)>>, <<Num(5)>>, <<Num(30)>>, <<Num(40)>>,
                  <<Num(40)>>, <<Num(7)>> >>

\* a column of yes and no, which inferType types boolean
SheetFlags == << <<Str(w_active), Str(w_name)>>,
                 <<Str(s_yes), Str(w_baby)>>, <<Str(s_no), Str(w_admin)>> >>

EngineSheets == {SheetPeople, SheetTeam, SheetTrade, SheetHeaderOnly, SheetSameAge,
                 SheetGaps, SheetSpread, SheetFlags}

\* a DataSet of one column built by the caller, as types.ts declares it
ColumnDataset(name, type, cells) ==
    [columns |-> <<[name |-> Str(name), type |-> type, values |-> cells]>>,
     rows |-> [r \in 1..Len(cells) |-> [k \in {name} |-> cells[r]]],
     fileName |-> w_data]

\* a number-typed column none of whose values coerces to a number
UncoercibleAges == ColumnDataset(w_age, "number", <<Str(w_x), Str(w_active)>>)

EngineDatasets(lenient) ==
    {DatasetOf(json, lenient) : json \in EngineSheets} \cup {Just(UncoercibleAges)}

EngineQuestions ==
    {Join(ws) : ws \in {
        <<kw_average>>, <<kw_average, w_age>>, <<kw_mean, w_Sales>>,
        <<kw_max, w_age>>, <<kw_min, w_age>>, <<kw_highest, w_Sales>>,
        <<kw_show, w_age>>, <<kw_show, w_status>>, <<kw_show, w_region>>,
        <<kw_show, w_active>>,
        <<kw_show, <<"a">>, kw_pie, kw_chart, <<"o", "f">>, w_region>>, <<kw_plot>>,
        <<kw_compare, kw_by, w_status>>, <<kw_compare, kw_by, w_age>>,
        <<kw_compare, kw_by, w_region>>, <<kw_compare, w_age, kw_by, w_status>>,
        <<kw_compare>>, <<kw_compare, w_status>>, <<kw_compare, kw_by>>,
        <<kw_compare, kw_by, w_country>>,
        <<kw_compare, kw_by, <<>>>>, <<kw_compare, kw_by, <<>>, w_country>>}}

InitEngine ==
    /\ file = Nothing
    /\ dateLenient \in BOOLEAN
    /\ dataset \in EngineDatasets(dateLenient)
    /\ error = "none"
    /\ query \in {Just(q) : q \in EngineQuestions}
    /\ handler = "none"
    /\ lastConditions = NotCalled
    /\ outcome = Nothing
    /\ values = <<>>
    /\ inferred = "none"
    /\ NoChat

NextEngine == QuerySettles

SpecEngine == InitEngine /\ [][NextEngine]_vars

-----------------------------------------------------------------------------
(* The chat session: App and ChatInterface with their promises pending *)

MaxUploads == 2
MaxMessages == 5
MaxOrphans == 1

\* a sheet of people, a sheet whose numeric header makes handlers throw, and
\* a file that does not decode
ChatFiles == {OkFile(SheetPeople), OkFile(SheetYears), CorruptFile}

\* what the user types: two questions and a blank
ChatTexts == {kw_count, kw_plot, <<" ">>}

\* the variables of the other specifications
askedVars == <<file, query, handler, lastConditions, outcome, dateLenient, values, inferred>>

\* the first element of useState's initial messages
Greeting(ds) ==
    [type |-> "assistant",
     content |-> Content("Hello! I've analyzed your Excel file ${fileName}. I found ${rows} rows and ${columns} columns.",
                         <<Str(ds.fileName)>>, <<Num(Len(ds.rows)), Num(Len(ds.columns))>>),
     chart |-> Nothing, table |-> Nothing]

UserMessage(text) ==
    [type |-> "user", content |-> Content("${inputValue}", <<Str(text)>>, <<>>),
     chart |-> Nothing, table |-> Nothing]

AssistantMessage(result) ==
    [type |-> "assistant", content |-> result.content,
     chart |-> result.chart, table |-> result.table]

ErrorMessage ==
    [type |-> "assistant",
     content |-> Content("I apologize, but I encountered an error processing your query.",
                         <<>>, <<>>),
     chart |-> Nothing, table |-> Nothing]

\* the try block without its catch: a rejection appends nothing
SettledWithoutCatch(msgs, result) ==
    IF result.status = "rejected" THEN msgs ELSE Append(msgs, AssistantMessage(result))

\* the message list after the awaited promise settled: the try appends the
\* result, the catch the apology
Settled(msgs, result) ==
    IF result.status = "rejected" THEN Append(msgs, ErrorMessage)
    ELSE Append(msgs, AssistantMessage(result))

\* a processor built anew from the dataset prop of each render
ProcessorRebuilt(current, prop) == Just(prop)

\* useRef(new QueryProcessor(dataset)) on a render after the first: the ref
\* keeps its first value, the argument is dropped
ProcessorOnRender(current, prop) == current

\* the early return without the test of the input
SubmitIgnoredWhenLoading(input, loading) == loading

\* if (!inputValue.trim() || isLoading) return;
SubmitIgnored(input, loading) == Trim(input) = <<>> \/ loading

\* ChatInterface is rendered
Mounted == queryProcessor # Nothing

InitChat ==
    /\ file = Nothing
    /\ dataset = Nothing
    /\ error = "none"
    /\ query = Nothing
    /\ handler = "none"
    /\ lastConditions = NotCalled
    /\ outcome = Nothing
    /\ dateLenient \in BOOLEAN
    /\ values = <<>>
    /\ inferred = "none"
    /\ NoChat

\* App.handleFileUpload up to its await.  FileUpload is rendered only while
\* there is no dataset; it may hand over a file while another is pending
UploadStarts(f) ==
    /\ dataset = Nothing
    /\ f \notin uploads
    /\ Cardinality(uploads) < MaxUploads
    /\ uploads' = uploads \cup {f}
    /\ appIsLoading' = TRUE
    /\ error' = "none"
    /\ lastEvent' = "other"
    /\ UNCHANGED <<dataset, queryProcessor, opened, messages, inputValue, chatIsLoading,
                   inflight, orphans>>
    /\ UNCHANGED askedVars

\* the first render of ChatInterface with the dataset ds
Mount(ds) ==
    /\ queryProcessor' = Just(ds)
    /\ opened' = Just(ds)
    /\ messages' = <<Greeting(ds)>>
    /\ inputValue' = <<>>
    /\ chatIsLoading' = FALSE
    /\ inflight' = <<>>

\* a render of the mounted ChatInterface with a new dataset prop
Rerender(ds) ==
    /\ queryProcessor' = ProcessorOnRender(queryProcessor, ds)
    /\ UNCHANGED <<opened, messages, inputValue, chatIsLoading, inflight>>

\* setDataset(processedData) or setError(message), then the render
UploadSettled(settled) ==
    IF settled.status = "rejected"
    THEN /\ error' = settled.message
         /\ UNCHANGED <<dataset, queryProcessor, opened, messages, inputValue,
                        chatIsLoading, inflight>>
    ELSE /\ dataset' = settled.value
         /\ error' = error
         /\ IF dataset = Nothing THEN Mount(settled.value[1]) ELSE Rerender(settled.value[1])

\* App.handleFileUpload from its await on
UploadSettles(f) ==
    /\ f \in uploads
    /\ uploads' = uploads \ {f}
    /\ UploadSettled(processFile(f, dateLenient))
    /\ appIsLoading' = FALSE
    /\ lastEvent' = "other"
    /\ UNCHANGED orphans
    /\ UNCHANGED askedVars

\* App.handleReset from the chat's button: ChatInterface is unmounted with
\* its state, its pending promises stay pending
ChatReset ==
    /\ dataset # Nothing
    /\ orphans + Len(inflight) <= MaxOrphans
    /\ dataset' = Nothing
    /\ error' = "none"
    /\ orphans' = orphans + Len(inflight)
    /\ queryProcessor' = Nothing
    /\ opened' = Nothing
    /\ messages' = <<>>
    /\ inputValue' = <<>>
    /\ chatIsLoading' = FALSE
    /\ inflight' = <<>>
    /\ lastEvent' = "other"
    /\ UNCHANGED <<uploads, appIsLoading>>
    /\ UNCHANGED askedVars

\* onChange of the input, which is disabled while isLoading
InputChanges(text) ==
    /\ Mounted
    /\ ~chatIsLoading
    /\ inputValue' = text
    /\ lastEvent' = "other"
    /\ UNCHANGED <<dataset, error, uploads, appIsLoading, queryProcessor, opened, messages,
                   chatIsLoading, inflight, orphans>>
    /\ UNCHANGED askedVars

\* the promise processQuery returns: the body has no await, so it runs to
\* its return or its throw within the call, on the dataset the processor
\* holds then, and the promise is pending only for handleSubmit's await
Promise(text, ds) == [text |-> text, processor |-> ds, settlement |-> processQuery(ds, text)]

\* ChatInterface.handleSubmit up to its await, on any submit event of the form
ChatSubmit ==
    /\ Mounted
    /\ SubmitIgnored(inputValue, chatIsLoading) \/ Len(messages) + 2 <= MaxMessages
    /\ IF SubmitIgnored(inputValue, chatIsLoading)
       THEN UNCHANGED <<messages, inputValue, chatIsLoading, inflight>>
       ELSE /\ messages' = Append(messages, UserMessage(inputValue))
            /\ inputValue' = <<>>
            /\ chatIsLoading' = TRUE
            /\ inflight' = Append(inflight, Promise(inputValue, queryProcessor[1]))
    /\ lastEvent' = "handleSubmit"
    /\ UNCHANGED <<dataset, error, uploads, appIsLoading, queryProcessor, opened, orphans>>
    /\ UNCHANGED askedVars

\* ChatInterface.handleSubmit from its await on, in the mounted component
ChatSettles ==
    /\ inflight # <<>>
    /\ messages' = Settled(messages, Head(inflight).settlement)
    /\ chatIsLoading' = FALSE
    /\ inflight' = Tail(inflight)
    /\ lastEvent' = "other"
    /\ UNCHANGED <<dataset, error, uploads, appIsLoading, queryProcessor, opened, inputValue,
                   orphans>>
    /\ UNCHANGED askedVars

\* the same in a component that was unmounted: its state setters do nothing
OrphanSettles ==
    /\ orphans > 0
    /\ orphans' = orphans - 1
    /\ lastEvent' = "other"
    /\ UNCHANGED <<dataset, error, uploads, appIsLoading, queryProcessor, opened, messages,
                   inputValue, chatIsLoading, inflight>>
    /\ UNCHANGED askedVars

NextChat ==
    \/ \E f \in ChatFiles : UploadStarts(f)
    \/ \E f \in ChatFiles : UploadSettles(f)
    \/ ChatReset
    \/ \E text \in ChatTexts : InputChanges(text)
    \/ ChatSubmit
    \/ ChatSettles
    \/ OrphanSettles

SpecChat == InitChat /\ [][NextChat]_vars

\* a pending promise of the mounted component settles in the end
SpecChatFair == SpecChat /\ WF_vars(ChatSettles)

-----------------------------------------------------------------------------
(* Properties: routing *)

\* the rules of the specification, in their order
Rules ==
    << [handler |-> "handleAverageQuery", words |-> {kw_average, kw_mean}],
       [handler |-> "handleCountQuery", words |-> {kw_count, kw_how_many}],
       [handler |-> "handleMaxQuery", words |-> {kw_maximum, kw_max, kw_highest}],
       [handler |-> "handleMinQuery", words |-> {kw_minimum, kw_min, kw_lowest}],
       [handler |-> "handleChartQuery", words |-> {kw_chart, kw_graph, kw_plot, kw_show}],
       [handler |-> "handleComparisonQuery", words |-> {kw_compare, kw_by}],
       [handler |-> "handleFilterQuery", words |-> {kw_where, kw_filter}] >>

RuleApplies(k, text) == \E w \in Rules[k].words : includes(toLowerCase(text), w)

FirstRule(text) ==
    IF \A k \in 1..Len(Rules) : ~RuleApplies(k, text) THEN "handleSummaryQuery"
    ELSE Rules[CHOOSE k \in 1..Len(Rules) :
                  RuleApplies(k, text) /\ \A j \in 1..(k - 1) : ~RuleApplies(j, text)].handler

ShowAverageSales == Join(<<kw_show, kw_average, w_sales>>)

\* C1: every question is answered by exactly one handler, that of the first
\* rule, in the order Average, Count, Max, Min, Chart, Comparison, Filter,
\* whose keyword the lower-cased text contains, and by Summary when no rule
\* applies; "show average sales" goes to Average, not Chart.
RoutedByFirstRule ==
    (query # Nothing /\ handler # "none") =>
        /\ handler = FirstRule(query[1])
        /\ outcome = Just(Dispatch(dataset[1], query[1], FirstRule(query[1])))
        /\ (query[1] = ShowAverageSales => handler = "handleAverageQuery")

\* C1 case: "show average sales", which holds keywords of the Average and
\* of the Chart rule, was answered by the Average handler.
ShowAverageSalesIsAverage ==
    /\ query = Just(ShowAverageSales)
    /\ handler = "handleAverageQuery"
    /\ outcome # Nothing
    /\ RuleApplies(1, ShowAverageSales) /\ RuleApplies(5, ShowAverageSales)

-----------------------------------------------------------------------------
(* Properties: results and datasets *)

\* C2: whatever the dataset and the question, processQuery settles with a
\* well-formed result and hands no fault to its caller: a text content, a
\* chart payload with type 'chart', a table payload with type 'table'.
AnswerAlwaysWellFormed ==
    outcome # Nothing =>
        /\ outcome[1].status = "resolved"
        /\ outcome[1].type \in {"text", "chart", "table"}
        /\ (outcome[1].type = "chart" => outcome[1].chart # Nothing)
        /\ (outcome[1].type = "table" => outcome[1].table # Nothing)

\* C3: in every dataset processFile builds, every column holds as many
\* values as there are rows and every row record has exactly the column
\* names as its keys.
ColumnValuesAlignWithRows ==
    dataset # Nothing =>
        /\ \A i \in 1..Len(dataset[1].columns) :
              Len(dataset[1].columns[i].values) = Len(dataset[1].rows)
        /\ \A r \in 1..Len(dataset[1].rows) :
              DOMAIN dataset[1].rows[r] =
                  {StringOf(dataset[1].columns[i].name) : i \in 1..Len(dataset[1].columns)}

\* C4: every row record maps each column name to the raw cell at that
\* position, and to null only when the decoded row has no cell there; a
\* present 0, false or empty string is kept.
RowsKeepPresentCells ==
    (dataset # Nothing /\ file # Nothing) =>
        \A r \in 1..Len(dataset[1].rows) : \A i \in 1..Len(file[1].json[1]) :
            Get(dataset[1].rows[r], file[1].json[1][i]) =
                IF At(file[1].json[r + 1], i) = Undefined THEN Null
                ELSE At(file[1].json[r + 1], i)

-----------------------------------------------------------------------------
(* Properties: type inference *)

\* how many of the values count as numeric
NumericCount == Len(SelectSeq(values, IsNumericValue))

\* C5 as stated: a column of which at least 80% of the values are numeric,
\* exactly 80% included, is inferred 'number'.
NumberAtEightyPercent ==
    (inferred # "none" /\ Len(values) > 0 /\ 5 * NumericCount >= 4 * Len(values))
        => inferred = "number"

\* C5 as the code has it: a column is inferred 'number' exactly when it has
\* values and strictly more than 80% of them are numeric, whatever
\* boolean-like or date-like values it holds; a column of only "1" and "0" is
\* 'number', never 'boolean'.
NumberAboveThreshold ==
    inferred # "none" =>
        /\ inferred = "number" <=> (Len(values) > 0 /\ 5 * NumericCount > 4 * Len(values))
        /\ (Len(values) > 0 /\ \A i \in 1..Len(values) : values[i] \in {Str(w_1), Str(w_0)})
              => inferred = "number"

\* C5 case: five values of which exactly four are numeric were inferred,
\* and not as 'number'.
ExactlyEightyPercentNotNumber ==
    /\ inferred \notin {"none", "number"}
    /\ Len(values) = 5
    /\ NumericCount = 4

-----------------------------------------------------------------------------
(* Properties: conditions *)

\* the column a token resolves to: the first whose name contains the token
\* or is contained in it, letter case aside; 0 if there is none
ResolvedColumn(ds, token) ==
    LET InContainment(i) ==
            /\ ds.columns[i].name.t = "str"
            /\ \/ includes(toLowerCase(ds.columns[i].name.s), toLowerCase(token))
               \/ includes(toLowerCase(token), toLowerCase(ds.columns[i].name.s))
        hits == {i \in 1..Len(ds.columns) : InContainment(i)}
    IN  IF hits = {} THEN 0 ELSE CHOOSE i \in hits : \A j \in hits : i <= j

\* the condition the specification gives for a token, an operator and a value
ExpectedCondition(ds, token, operator, value) ==
    LET c == ds.columns[ResolvedColumn(ds, token)] IN
    [column |-> c.name,
     operator |-> operator,
     value |-> IF c.type = "number" THEN Number(Str(toLowerCase(value)))
               ELSE Str(toLowerCase(value))]

\* the tokens of a text: its maximal runs of word characters
Tokens(s) ==
    {SubSeq(s, i, j) : i \in 1..Len(s), j \in 1..Len(s)} \cap
    {SubSeq(s, i, RunEnd(s, i, WordChars) - 1) :
        i \in {k \in 1..Len(s) : s[k] \in WordChars /\ (k = 1 \/ s[k - 1] \notin WordChars)}}

\* the dataset is as types.ts declares it: every column name is a string
StringNamed(ds) == \A i \in 1..Len(ds.columns) : ds.columns[i].name.t = "str"

\* extractConditions was called on a dataset of string-named columns
Extracting == lastConditions.called /\ StringNamed(dataset[1])

\* C6: for "<token> is <value>" and "<token> equal[s] <value>" with a token
\* that resolves to a column c, extractConditions gives a condition on c with
\* operator "=" and the value token, as a number when c is number-typed.
WordFormYieldsEquality ==
    \A wq \in WordFormQuestions :
        (/\ query = Just(wq.text)
         /\ Extracting
         /\ ResolvedColumn(dataset[1], wq.form.token) > 0)
        => /\ ~lastConditions.threw
           /\ \E k \in 1..Len(lastConditions.conditions) :
                 lastConditions.conditions[k] =
                     ExpectedCondition(dataset[1], wq.form.token, op_eq, wq.form.value)

AgeOver30 == Join(<<w_age, op_gt, w_30>>)

\* C7: for "<token> <op> <value>" with op one of >, <, =, >=, <= and a token
\* that resolves to a column c, extractConditions gives the condition on c
\* with exactly that operator (>= and <= whole) and the value, as a number
\* when c is number-typed and as a string otherwise; "age > 30" on a numeric
\* column age gives [{column: age, operator: >, value: 30}].
ComparisonYieldsCondition ==
    /\ \A cq \in ComparisonQuestions :
          (/\ query = Just(cq.text)
           /\ Extracting
           /\ ResolvedColumn(dataset[1], cq.form.token) > 0)
          => /\ ~lastConditions.threw
             /\ lastConditions.conditions =
                   <<ExpectedCondition(dataset[1], cq.form.token, cq.form.op,
                                       cq.form.value)>>
    /\ (/\ query = Just(AgeOver30)
        /\ Extracting
        /\ dataset[1].columns[1].name = Str(w_age)
        /\ dataset[1].columns[1].type = "number")
       => lastConditions.conditions =
             << [column |-> Str(w_age), operator |-> op_gt, value |-> Num(30)] >>

\* C7 case: "age>=30" on a dataset with the numeric column age gave the one
\* condition age >= 30, the operator whole.
GreaterOrEqualKept ==
    /\ query = Just(w_age \o op_ge \o w_30)
    /\ Extracting
    /\ dataset[1].columns[1].type = "number"
    /\ lastConditions.conditions =
          << [column |-> Str(w_age), operator |-> op_ge, value |-> Num(30)] >>

\* C8: every condition extractConditions returns is on a column of the
\* dataset; a match whose first token resolves to no column adds nothing, so
\* a text none of whose tokens is in containment with a column name gives
\* the empty list.
ConditionsNameColumns ==
    Extracting =>
        LET ds == dataset[1]
            matches == AllMatches(toLowerCase(query[1]), 1)
            resolving == {k \in 1..Len(matches) : ResolvedColumn(ds, matches[k][1]) > 0}
        IN  /\ ~lastConditions.threw
            /\ \A k \in 1..Len(lastConditions.conditions) :
                  \E i \in 1..Len(ds.columns) :
                      lastConditions.conditions[k].column = ds.columns[i].name
            /\ Len(lastConditions.conditions) = Cardinality(resolving)
            /\ (\A t \in Tokens(toLowerCase(query[1])) : ResolvedColumn(ds, t) = 0)
                  => lastConditions.conditions = <<>>

\* C8 case: of the two matches of "x > 5 status = active" only the one on
\* the column status became a condition.
UnresolvedTokenDropped ==
    /\ query = Just(Join(<<w_x, op_gt, w_5, w_status, op_eq, w_active>>))
    /\ Extracting
    /\ Len(AllMatches(toLowerCase(query[1]), 1)) = 2
    /\ lastConditions.conditions =
          << [column |-> Str(w_status), operator |-> op_eq, value |-> Str(w_active)] >>

-----------------------------------------------------------------------------
(* Properties: count and filter *)

\* the rows of the dataset that satisfy every one of the conditions
RowsSatisfying(ds, conds) ==
    SelectSeq(ds.rows, LAMBDA row : \A k \in 1..Len(conds) : ConditionHolds(row, conds[k]))

\* C9: a Count question with at least one extracted condition reports
\* (m, n), m the number of rows satisfying all the conditions and n the number
\* of rows, with m <= n; with no condition it reports n alone.
CountReportsMatches ==
    (handler = "handleCountQuery" /\ outcome # Nothing /\ StringNamed(dataset[1])) =>
        LET ds == dataset[1]
            conds == lastConditions.conditions
            m == Len(RowsSatisfying(ds, conds))
            n == Len(ds.rows)
        IN  /\ lastConditions.called /\ ~lastConditions.threw
            /\ outcome[1].type = "text"
            /\ m <= n
            /\ IF Len(conds) > 0
               THEN outcome[1].content =
                       Content("Found ${m} rows matching your criteria out of ${n} total rows.",
                               <<>>, <<Num(m), Num(n)>>)
               ELSE outcome[1].content =
                       Content("Total number of records: ${n}", <<>>, <<Num(n)>>)

\* C9 case: a Count question with two conditions reported one matching row
\* of two.
CountWithTwoConditions ==
    /\ handler = "handleCountQuery"
    /\ outcome # Nothing
    /\ StringNamed(dataset[1])
    /\ Len(lastConditions.conditions) = 2
    /\ outcome[1].content.nums = <<Num(1), Num(2)>>

\* C10: a Filter question with k >= 1 matching rows gives a table whose
\* headers are all the column names in column order and whose rows are the
\* first min(10, k) matching rows in row order, and its text states k even
\* when k > 10; with no extracted condition every row matches.
FilterTableShowsFirstTen ==
    (handler = "handleFilterQuery" /\ outcome # Nothing /\ StringNamed(dataset[1])) =>
        LET ds == dataset[1]
            matching == RowsSatisfying(ds, lastConditions.conditions)
            k == Len(matching)
            shown == IF k < 10 THEN k ELSE 10
        IN  /\ lastConditions.called /\ ~lastConditions.threw
            /\ (Len(lastConditions.conditions) = 0 => matching = ds.rows)
            /\ k >= 1 =>
                /\ outcome[1].type = "table"
                /\ outcome[1].table # Nothing
                /\ outcome[1].table[1].headers =
                      [i \in 1..Len(ds.columns) |-> ds.columns[i].name]
                /\ outcome[1].table[1].rows =
                      [r \in 1..shown |->
                          [h \in 1..Len(ds.columns) |->
                              OrElse(Get(matching[r], ds.columns[h].name), Str(<<>>))]]
                /\ outcome[1].content =
                      Content("Found ${k} matching records:", <<>>, <<Num(k)>>)

\* C10 case: a Filter question matched more than ten rows; the table shows
\* ten and the text states them all.
FilterTruncated ==
    /\ handler = "handleFilterQuery"
    /\ outcome # Nothing
    /\ StringNamed(dataset[1])
    /\ outcome[1].type = "table"
    /\ Len(outcome[1].table[1].rows) = 10
    /\ outcome[1].content.nums[1].n > 10
    /\ outcome[1].content.nums[1].n = Len(dataset[1].rows)

-----------------------------------------------------------------------------
(* Properties: the conditions' meaning *)

\* a condition as the specification reads it: the four order operators
\* compare the cell and the filter value as numbers, false when either is
\* not a number; every other operator is containment of the lower-cased
\* strings
HoldsAsSpecified(row, c) ==
    LET cell == Number(Get(row, c.column))
        bound == Number(c.value)
        both == cell.t = "num" /\ bound.t = "num"
    IN  IF c.operator = op_gt THEN both /\ cell.n > bound.n
        ELSE IF c.operator = op_lt THEN both /\ cell.n < bound.n
        ELSE IF c.operator = op_ge THEN both /\ cell.n >= bound.n
        ELSE IF c.operator = op_le THEN both /\ cell.n <= bound.n
        ELSE includes(toLowerCase(StringOf(Get(row, c.column))),
                      toLowerCase(StringOf(c.value)))

\* the rows of which every condition holds as specified, in row order
RowsAsSpecified(ds, conds) ==
    SelectSeq(ds.rows, LAMBDA row : \A k \in 1..Len(conds) : HoldsAsSpecified(row, conds[k]))

\* C11: applyFilters keeps exactly the rows of which every condition holds,
\* the operators >, <, >=, <= comparing cell and filter value as numbers and
\* "=" or any other operator testing containment of the lower-cased
\* strings: a Count question reports the number of these rows, a Filter
\* question shows them.
FiltersKeepRowsAsSpecified ==
    (outcome # Nothing /\ StringNamed(dataset[1]) /\ lastConditions.called) =>
        LET ds == dataset[1]
            kept == RowsAsSpecified(ds, lastConditions.conditions)
        IN  /\ (handler = "handleCountQuery" /\ Len(lastConditions.conditions) > 0)
                  => outcome[1].content.nums = <<Num(Len(kept)), Num(Len(ds.rows))>>
            /\ (handler = "handleFilterQuery" /\ Len(kept) = 0)
                  => outcome[1].type = "text"
            /\ (handler = "handleFilterQuery" /\ Len(kept) > 0)
                  => /\ outcome[1].content.nums = <<Num(Len(kept))>>
                     /\ outcome[1].table[1].rows =
                           [r \in 1..(IF Len(kept) < 10 THEN Len(kept) ELSE 10) |->
                               [h \in 1..Len(ds.columns) |->
                                   OrElse(Get(kept[r], ds.columns[h].name), Str(<<>>))]]

\* C11 case: "count status = act" counted the one row of two whose status,
\* "active", contains "act" without being equal to it.
ContainmentNotEquality ==
    /\ query = Just(Join(<<kw_count, w_status, op_eq, w_act>>))
    /\ handler = "handleCountQuery"
    /\ outcome # Nothing
    /\ StringNamed(dataset[1])
    /\ outcome[1].content.nums = <<Num(1), Num(2)>>

-----------------------------------------------------------------------------
(* Properties: empty results *)

\* C12: a Filter question that matches no rows and a Comparison question
\* that produces no groups are answered by a Text result: the answer is
\* never a Table of zero rows nor a Chart of an empty series.
NoEmptyTableNorChart ==
    (outcome # Nothing /\ handler \in {"handleFilterQuery", "handleComparisonQuery"}) =>
        /\ outcome[1].type = "table" => Len(outcome[1].table[1].rows) > 0
        /\ outcome[1].type = "chart" => Len(outcome[1].chart[1].data) > 0

-----------------------------------------------------------------------------
(* Properties: aggregates without numbers *)

\* the number-typed column an Average, Max or Min question names, if any
TargetColumn ==
    LET numeric == NumericColumns(dataset[1])
        named == {i \in 1..Len(numeric) :
                     includes(toLowerCase(query[1]), toLowerCase(numeric[i].name.s))}
    IN  IF named = {} THEN Nothing
        ELSE Just(numeric[CHOOSE i \in named : \A j \in named : i <= j])

\* no value of the column coerces to a number
NoneCoerces(col) == \A i \in 1..Len(col.values) : isNaN(Number(col.values[i]))

LabelOf(row, name) == StringOf(OrElse(Get(row, name), Str(s_Unknown)))

\* C14: in a Comparison, a group none of whose rows has a value of the
\* aggregated numeric column that coerces to a number gets no numeric mean:
\* the answer is an explanatory text. So every group of a chart of averages
\* has a row whose aggregated value coerces.
GroupMeansHaveNumbers ==
    (/\ outcome # Nothing
     /\ handler = "handleComparisonQuery"
     /\ StringNamed(dataset[1])
     /\ outcome[1].type = "chart"
     /\ outcome[1].chart[1].yKey = "average")
        => LET chart == outcome[1].chart[1]
               aggregated == chart.title.cols[1]
               groupBy == chart.title.cols[2]
               rows == dataset[1].rows
           IN  \A e \in 1..Len(chart.data) :
                  \E r \in 1..Len(rows) :
                      /\ LabelOf(rows[r], groupBy) = chart.data[e].name
                      /\ ~isNaN(Number(Get(rows[r], aggregated)))

-----------------------------------------------------------------------------
(* Properties: charts *)

\* the answer is the histogram of a number-typed column of a string-named
\* dataset
IsHistogram ==
    /\ outcome # Nothing
    /\ handler = "handleChartQuery"
    /\ StringNamed(dataset[1])
    /\ outcome[1].type = "chart"
    /\ outcome[1].content.tpl = "Distribution of ${columnName}:"
    /\ dataset[1].columns[ColumnNamed(dataset[1], outcome[1].content.cols[1])].type = "number"

\* the numbers among the values of the histogram's column
HistogramValues ==
    Coercible(dataset[1].columns[ColumnNamed(dataset[1], outcome[1].content.cols[1])].values)

\* the label of bin i of ten equal bins between lo and hi
TenthLabel(i, lo, hi) ==
    Fixed1(10 * lo + i * (hi - lo)) \o <<"-">> \o Fixed1(10 * lo + (i + 1) * (hi - lo))

\* C15: the histogram of a number-typed column has bin counts that sum to
\* the number of coercible values, every entry is one of the ten bins 0..9,
\* and the maximum is counted in the last bin, also when all values are
\* equal.
HistogramHasTenBins ==
    IsHistogram =>
        LET data == outcome[1].chart[1].data
            ks == HistogramValues
            lo == CHOOSE k \in Range(ks) : \A j \in Range(ks) : k <= j
            hi == CHOOSE k \in Range(ks) : \A j \in Range(ks) : j <= k
        IN  /\ Sum([e \in 1..Len(data) |-> data[e].count]) = Len(ks)
            /\ Len(data) <= 10
            /\ ks # <<>> =>
                  /\ \A e \in 1..Len(data) :
                        \E i \in 0..9 : data[e].name = TenthLabel(i, lo, hi)
                  /\ \E e \in 1..Len(data) :
                        /\ data[e].name = TenthLabel(9, lo, hi)
                        /\ data[e].count >= Occurrences(ks, hi)

\* the answer is the distribution chart of a string-typed column of a
\* string-named dataset
IsDistribution ==
    /\ outcome # Nothing
    /\ handler = "handleChartQuery"
    /\ StringNamed(dataset[1])
    /\ outcome[1].type = "chart"
    /\ outcome[1].content.tpl = "Distribution of ${columnName}:"
    /\ dataset[1].columns[ColumnNamed(dataset[1], outcome[1].content.cols[1])].type = "string"

\* the label of a row in the distribution of the column named name: the
\* cell as a string, "Unknown" for a null cell
CategoryOf(row, name) ==
    IF Get(row, name) \in {Null, Undefined} THEN s_Unknown ELSE StringOf(Get(row, name))

\* C16: the distribution chart of a string-typed column groups the rows by
\* the cell as a string, a null cell under "Unknown": one entry per distinct
\* label, its count the number of rows of that label, the counts summing to
\* the number of rows.
DistributionCountsRows ==
    IsDistribution =>
        LET data == outcome[1].chart[1].data
            name == outcome[1].content.cols[1]
            rows == dataset[1].rows
            labels == {CategoryOf(rows[r], name) : r \in 1..Len(rows)}
        IN  /\ {data[e].name : e \in 1..Len(data)} = labels
            /\ Len(data) = Cardinality(labels)
            /\ \A e \in 1..Len(data) :
                  data[e].count =
                      Cardinality({r \in 1..Len(rows) : CategoryOf(rows[r], name) = data[e].name})
            /\ Sum([e \in 1..Len(data) |-> data[e].count]) = Len(rows)

\* C16 example: region [east, east, west] with "show a pie chart of region"
\* gives a pie of east:2, west:1.
PieOfRegions ==
    /\ outcome # Nothing
    /\ dataset = DatasetOf(SheetTrade, dateLenient)
    /\ query = Just(Join(<<kw_show, <<"a">>, kw_pie, kw_chart, <<"o", "f">>, w_region>>))
    /\ outcome[1].type = "chart"
    /\ outcome[1].chart[1].type = "pie"
    /\ [e \in 1..Len(outcome[1].chart[1].data) |->
           <<outcome[1].chart[1].data[e].name, outcome[1].chart[1].data[e].count>>]
         = << <<w_east, 2>>, <<w_west, 1>> >>

-----------------------------------------------------------------------------
(* Properties: grouped analysis *)

\* the answer is a grouped chart over a string-named dataset
IsGrouped ==
    /\ outcome # Nothing
    /\ handler = "handleComparisonQuery"
    /\ StringNamed(dataset[1])
    /\ outcome[1].type = "chart"

\* the rows whose group label under the column named groupBy is label
RowsOfGroup(ds, groupBy, label) ==
    SelectSeq(ds.rows, LAMBDA row : CategoryOf(row, groupBy) = label)

\* the numbers among the cells of the column named name in rows
NumbersOf(rows, name) == Coercible([r \in 1..Len(rows) |-> Get(rows[r], name)])

\* C17: createGroupedAnalysis partitions all rows by the group cell as a
\* string, null as "Unknown", so the counts sum to the row count; it
\* aggregates the first number-typed column other than the group-by column,
\* each group carrying its size and the mean of its coercible values, in a
\* bar chart; without such a column the entries carry the counts only.
GroupedAnalysisAggregates ==
    IsGrouped =>
        LET ds == dataset[1]
            chart == outcome[1].chart[1]
            data == chart.data
            groupBy == outcome[1].content.cols[1]
            labels == {CategoryOf(ds.rows[r], groupBy) : r \in 1..Len(ds.rows)}
            numeric == {c \in 1..Len(ds.columns) :
                           ds.columns[c].type = "number" /\ ds.columns[c].name # groupBy}
            first == CHOOSE c \in numeric : \A d \in numeric : c <= d
        IN  /\ chart.type = "bar"
            /\ {data[e].name : e \in 1..Len(data)} = labels
            /\ Len(data) = Cardinality(labels)
            /\ \A e \in 1..Len(data) :
                  data[e].count = Len(RowsOfGroup(ds, groupBy, data[e].name))
            /\ Sum([e \in 1..Len(data) |-> data[e].count]) = Len(ds.rows)
            /\ numeric = {} =>
                  /\ chart.yKey = "count"
                  /\ \A e \in 1..Len(data) :
                        /\ data[e].average = Nothing
                        /\ data[e].value = [num |-> data[e].count, den |-> 1]
            /\ numeric # {} =>
                  /\ chart.yKey = "average"
                  /\ chart.title.cols = <<ds.columns[first].name, groupBy>>
                  /\ \A e \in 1..Len(data) :
                        LET ks == NumbersOf(RowsOfGroup(ds, groupBy, data[e].name),
                                            ds.columns[first].name)
                        IN  /\ data[e].average = Just(data[e].value)
                            /\ ks # <<>> =>
                                  /\ data[e].value.den > 0
                                  /\ data[e].value.num * Len(ks) = Sum(ks) * data[e].value.den

\* C17 case: "compare by age" on people of ages 30 and 5 made one group per
\* age and gave each the mean of Sales, the first number-typed column that
\* is not age.
GroupedByAgeAveragesSales ==
    /\ IsGrouped
    /\ dataset = DatasetOf(SheetPeople, dateLenient)
    /\ query = Just(Join(<<kw_compare, kw_by, w_age>>))
    /\ outcome[1].chart[1].title.cols = <<Str(w_Sales), Str(w_age)>>
    /\ Len(outcome[1].chart[1].data) = 2
    /\ \E e \in 1..2 :
          /\ outcome[1].chart[1].data[e].name = w_30
          /\ outcome[1].chart[1].data[e].count = 1
          /\ outcome[1].chart[1].data[e].value = [num |-> 100, den |-> 1]

\* the whitespace-separated tokens of a text, in order: its maximal runs
\* of characters other than the space
RECURSIVE WhitespaceTokens(_)
WhitespaceTokens(s) ==
    IF s = <<>> THEN <<>>
    ELSE IF Head(s) = " " THEN WhitespaceTokens(Tail(s))
    ELSE LET stop == CHOOSE k \in 1..(Len(s) + 1) :
                        /\ k = Len(s) + 1 \/ s[k] = " "
                        /\ \A j \in 1..(k - 1) : s[j] # " "
         IN  <<SubSeq(s, 1, stop - 1)>> \o WhitespaceTokens(SubSeq(s, stop, Len(s)))

\* C18: a Comparison question yields a grouped chart only if its lower-cased
\* text, split on whitespace, has the token "by" and a token after it that
\* a column name contains; otherwise the answer is a text and no column is
\* chosen.
ComparisonNeedsTokenAfterBy ==
    IsGrouped =>
        LET tokens == WhitespaceTokens(toLowerCase(query[1]))
            columns == dataset[1].columns
        IN  \E i \in 1..Len(tokens) :
               /\ tokens[i] = kw_by
               /\ \E j \in (i + 1)..Len(tokens) :
                     \E c \in 1..Len(columns) :
                         includes(toLowerCase(columns[c].name.s), tokens[j])

-----------------------------------------------------------------------------
(* Properties: ingestion failures *)

\* C19: an upload whose decoding fails or whose sheet has zero rows ends in
\* an error shown to the user and no dataset: the dataset reference stays
\* null, and a dataset of zero data rows is never installed.
FailedUploadInstallsNothing ==
    /\ (file # Nothing /\ file[1].status # "ok") => (dataset = Nothing /\ error # "none")
    /\ error # "none" => dataset = Nothing
    /\ dataset # Nothing => Len(dataset[1].rows) > 0

-----------------------------------------------------------------------------
(* Properties: the dataset is read only *)

ChartWheneverColumnResolved ==
    (outcome # Nothing /\ handler = "handleChartQuery" /\ StringNamed(dataset[1])) =>
        LET columns == dataset[1].columns
            named == \E c \in 1..Len(columns) :
                        includes(toLowerCase(query[1]), toLowerCase(columns[c].name.s))
            hasString == \E c \in 1..Len(columns) : columns[c].type = "string"
        IN  /\ (named \/ hasString) => outcome[1].type = "chart"
            /\ outcome[1].type = "text" => (~named /\ ~hasString)

-----------------------------------------------------------------------------
(* Properties: the chat session *)

\* the message that answers the question text over the dataset ds
AnswerOver(ds, text) ==
    IF processQuery(ds, text).status = "rejected" THEN ErrorMessage
    ELSE AssistantMessage(processQuery(ds, text))

\* the question a user message carries
TextOf(message) == message.content.cols[1].s

\* C21: across any interleaving of uploads, resets and questions, a new
\* dataset replaces the reference and leaves the old one as it was: the
\* session's processor keeps the dataset the session was opened with, a
\* query in flight runs against that dataset, and every answer in the
\* session's message list was computed from it.
SessionAnswersFromOpenedDataset ==
    Mounted =>
        /\ queryProcessor = opened
        /\ messages[1] = Greeting(opened[1])
        /\ \A i \in 1..Len(inflight) :
              /\ inflight[i].processor = opened[1]
              /\ inflight[i].settlement = processQuery(opened[1], inflight[i].text)
        /\ \A k \in 2..Len(messages) :
              messages[k].type = "assistant" =>
                  messages[k] = AnswerOver(opened[1], TextOf(messages[k - 1]))

\* C21 case: the dataset was replaced while the session was open, and the
\* session's last answer is the count of the rows of the dataset it was
\* opened with, which the new dataset would not give.
AnsweredAfterReplacement ==
    /\ Mounted
    /\ dataset # Nothing
    /\ dataset # opened
    /\ Len(messages) >= 3
    /\ messages[Len(messages)].type = "assistant"
    /\ TextOf(messages[Len(messages) - 1]) = kw_count
    /\ messages[Len(messages)] # AnswerOver(dataset[1], kw_count)

\* C23: a submit event is ignored, message list, input and loading flag
\* unchanged, when the trimmed input is empty or a query is in flight; so at
\* most one query is in flight, exactly while isLoading, and no user message
\* is appended while another awaits its answer.
SubmitIgnoredWhenBlankOrLoading ==
    /\ [](Len(inflight) <= 1 /\ (chatIsLoading <=> Len(inflight) = 1))
    /\ [][(lastEvent' = "handleSubmit" /\ (Trim(inputValue) = <<>> \/ chatIsLoading))
             => UNCHANGED <<messages, inputValue, chatIsLoading, inflight>>]_vars
    /\ [][(chatIsLoading /\ Len(messages') > Len(messages))
             => messages'[Len(messages')].type = "assistant"]_vars

\* C23 case: a submit event came with only a blank in the input; nothing
\* was appended and nothing is in flight.
BlankSubmitIgnored ==
    /\ Mounted
    /\ lastEvent = "handleSubmit"
    /\ inputValue = <<" ">>
    /\ ~chatIsLoading
    /\ Len(messages) = 1
    /\ inflight = <<>>

\* C24: an accepted submit appends the user message and is followed in the
\* end by exactly one assistant message, the result or the apology, after
\* which isLoading is false; so the list after the greeting alternates
\* user, assistant, with at most one trailing user message, which is there
\* exactly while isLoading.
MessagesAlternate ==
    /\ [](Mounted =>
            /\ \A k \in 1..Len(messages) :
                  messages[k].type = (IF k % 2 = 0 THEN "user" ELSE "assistant")
            /\ chatIsLoading <=> Len(messages) % 2 = 0)
    /\ [][(lastEvent' = "handleSubmit" /\ Trim(inputValue) # <<>> /\ ~chatIsLoading)
             => /\ messages' = Append(messages, UserMessage(inputValue))
                /\ chatIsLoading']_vars
    /\ [][(chatIsLoading /\ Mounted')
             => \/ messages' = messages /\ chatIsLoading'
                \/ /\ ~chatIsLoading'
                   /\ Len(messages') = Len(messages) + 1
                   /\ SubSeq(messages', 1, Len(messages)) = messages
                   /\ messages'[Len(messages')] =
                         AnswerOver(opened[1], TextOf(messages[Len(messages)]))]_vars
    /\ \A n \in 1..MaxMessages :
          (chatIsLoading /\ Len(messages) = n)
              ~> (~Mounted \/ (~chatIsLoading /\ Len(messages) = n + 1))

\* C24 case: processQuery rejected and the apology was appended as the one
\* answer to the question; isLoading is false again.
ApologyAnswersRejection ==
    /\ Mounted
    /\ Len(messages) = 3
    /\ messages[2].type = "user"
    /\ processQuery(opened[1], TextOf(messages[2])).status = "rejected"
    /\ messages[3] = ErrorMessage
    /\ ~chatIsLoading

=============================================================================
